---- MODULE Spec2Model ----
(***************************************************************************)
(* Sales dashboard (dashboard-ventas): the data loader with its product    *)
(* name normalisation (src/src/data_loader.py), the loader cache of the    *)
(* dashboard process (src/src/app.py) and of the API process               *)
(* (src/src/api.py), the two upload flows and the report handlers.         *)
(*                                                                         *)
(* Strings are sequences of one-character strings, so that the cleaning    *)
(* functions and the similarity ratio are computed character by character. *)
(***************************************************************************)
EXTENDS Integers, Sequences, FiniteSets, TLC

VARIABLES
    file,         \* content of DATA_PATH on disk, shared by both processes
    cache,        \* per process: the st.cache_data entry of load_data
    df,           \* per process: the table its last call of load_data returned
    prevDf,       \* per process: the table of the call before that
    info,         \* per process, about its last call of load_data: a cache
                  \* hit, the file not overwritten since the read behind the
                  \* previous table, the cache cleared since the previous call
    stale,        \* per process: the file was overwritten since the read
                  \* behind df
    clearedSince, \* per process: its cache was cleared since its last call
    uploaded,     \* some upload has overwritten the file
    last,         \* the last handler that ran, and how it ended
    webhook,      \* the last call of push_to_n8n: how the request to the
                  \* webhook ended and how many requests were sent
    rawDf,        \* normalisation: the table handed to normalize_products
    normDf,       \* normalisation: the table it returned (NoDf before)
    matchTrace,   \* normalisation: the rule that mapped each row of normDf
    cleanIn,      \* cleaning: the string handed to clean_str
    cleanOut,     \* cleaning: what one and two applications returned
    table,        \* reports: the loaded table the report functions are given
    report,       \* reports: the last report computed from table
    writer,       \* the upload that has DATA_PATH open for writing, if any
    call,         \* a call of a function of the reports: its arguments
    ret,          \* what that call returned
    session,      \* st.session_state of one session of the dashboard
    now,          \* the clock (datetime.now()), in minutes
    shown         \* what the last run of the dashboard script rendered

sysVars == <<file, cache, df, prevDf, info, stale, clearedSince, uploaded, last,
            webhook, writer>>

normVars == <<rawDf, normDf, matchTrace>>

cleanVars == <<cleanIn, cleanOut>>

reportVars == <<table, report>>

callVars == <<call, ret>>

loginVars == <<session, now, shown>>

offlineVars == <<normVars, cleanVars, reportVars, callVars, loginVars>>

vars == <<file, cache, df, prevDf, info, stale, clearedSince, uploaded, last,
          webhook, rawDf, normDf, matchTrace, cleanIn, cleanOut, table, report,
          writer, call, ret, session, now, shown>>

-----------------------------------------------------------------------------
(* Characters and the str methods the loader uses                          *)

UpperChars == <<"A", "B", "C", "D", "E", "F", "G", "H", "I", "J", "K", "L", "M", "N", "O", "P", "Q", "R", "S", "T", "U", "V", "W", "X", "Y", "Z">>

LowerChars == <<"a", "b", "c", "d", "e", "f", "g", "h", "i", "j", "k", "l", "m", "n", "o", "p", "q", "r", "s", "t", "u", "v", "w", "x", "y", "z">>

DigitChars == <<"0", "1", "2", "3", "4", "5", "6", "7", "8", "9">>

UpperSet == {UpperChars[i] : i \in 1..Len(UpperChars)}

LowerSet == {LowerChars[i] : i \in 1..Len(LowerChars)}

DigitSet == {DigitChars[i] : i \in 1..Len(DigitChars)}

\* A missing cell (pandas NaN): not a str
NaN == <<"NaN">>

Lower(c) ==
    IF c \in UpperSet
    THEN LowerChars[CHOOSE i \in 1..Len(UpperChars) : UpperChars[i] = c]
    ELSE c

Upper(c) ==
    IF c \in LowerSet
    THEN UpperChars[CHOOSE i \in 1..Len(LowerChars) : LowerChars[i] = c]
    ELSE c

IsSpace(c) == c = " "

IsLetter(c) == c \in UpperSet \cup LowerSet

\* str.lower()
str_lower(s) == [i \in 1..Len(s) |-> Lower(s[i])]

StartsWithAt(s, i, w) ==
    /\ i + Len(w) - 1 <= Len(s)
    /\ \A k \in 1..Len(w) : s[i + k - 1] = w[k]

RECURSIVE RemoveFrom(_, _, _)
RemoveFrom(s, i, w) ==
    IF i > Len(s) THEN <<>>
    ELSE IF StartsWithAt(s, i, w) THEN RemoveFrom(s, i + Len(w), w)
    ELSE <<s[i]>> \o RemoveFrom(s, i + 1, w)

\* str.replace(w, ''): the leftmost non-overlapping occurrences are removed
str_replace(s, w) == RemoveFrom(s, 1, w)

\* 'sub' in s
Contains(s, w) == \E i \in 1..Len(s) : StartsWithAt(s, i, w)

RECURSIVE SplitFrom(_, _, _)
SplitFrom(s, i, cur) ==
    IF i > Len(s) THEN (IF Len(cur) = 0 THEN <<>> ELSE <<cur>>)
    ELSE IF IsSpace(s[i])
         THEN (IF Len(cur) = 0 THEN SplitFrom(s, i + 1, <<>>)
               ELSE <<cur>> \o SplitFrom(s, i + 1, <<>>))
         ELSE SplitFrom(s, i + 1, Append(cur, s[i]))

\* str.split(): the whitespace-separated tokens
str_split(s) == SplitFrom(s, 1, <<>>)

RECURSIVE str_join(_)
\* " ".join(parts)
str_join(parts) ==
    IF Len(parts) = 0 THEN <<>>
    ELSE IF Len(parts) = 1 THEN parts[1]
    ELSE parts[1] \o <<" ">> \o str_join(Tail(parts))

\* str.title(): a letter after a letter is lowered, any other letter raised
str_title(s) ==
    [i \in 1..Len(s) |->
        IF IsLetter(s[i])
        THEN (IF i > 1 /\ IsLetter(s[i - 1]) THEN Lower(s[i]) ELSE Upper(s[i]))
        ELSE s[i]]

-----------------------------------------------------------------------------
(* clean_str and clean_display_str                                         *)

noise_words ==
    << <<"t", "a", "p", "i", "z">>,
       <<"a", "m", "e", "r", "i", "c", "a", "n", "o">>,
       <<"i", "m", "p", "o", "r", "t", "a", "d", "o">>,
       <<"d", "e", "c", "o", "r", "a", "t", "i", "v", "o">>,
       <<"t", "e", "x", "t", "i", "l">>,
       <<"s", "i", "n", "t", "e", "t", "i", "c", "o">>,
       <<"b", "o", "n", "d", "e", "a", "d", "o">> >>

colors_to_remove ==
    { <<"n", "e", "g", "r", "o">>,
      <<"b", "l", "a", "c", "k">>,
      <<"n", "o", "i", "r">>,
      <<"a", "z", "u", "l">>,
      <<"b", "l", "u", "e">>,
      <<"r", "o", "j", "o">>,
      <<"r", "e", "d">>,
      <<"g", "r", "i", "s">>,
      <<"g", "r", "e", "y">>,
      <<"g", "r", "a", "y">>,
      <<"b", "l", "a", "n", "c", "o">>,
      <<"w", "h", "i", "t", "e">>,
      <<"c", "a", "f", "e">>,
      <<"b", "r", "o", "w", "n">>,
      <<"m", "a", "r", "r", "o", "n">>,
      <<"v", "e", "r", "d", "e">>,
      <<"g", "r", "e", "e", "n">>,
      <<"p", "l", "a", "t", "a">>,
      <<"s", "i", "l", "v", "e", "r">>,
      <<"b", "e", "i", "g", "e">>,
      <<"n", "a", "r", "a", "n", "j", "a">>,
      <<"o", "r", "a", "n", "g", "e">>,
      <<"r", "o", "s", "a">>,
      <<"p", "i", "n", "k">>,
      <<"t", "a", "b", "a", "c", "o">>,
      <<"c", "a", "r", "a", "m", "e", "l", "o">>,
      <<"a", "r", "e", "n", "a">>,
      <<"v", "i", "n", "o">>,
      <<"o", "s", "c", "u", "r", "o">>,
      <<"d", "a", "r", "k">>,
      <<"c", "l", "a", "r", "o">>,
      <<"l", "i", "g", "h", "t">> }

RECURSIVE RemoveNoise(_, _)
\* for word in noise_words: s = s.replace(word, '')
RemoveNoise(s, k) ==
    IF k > Len(noise_words) THEN s
    ELSE RemoveNoise(str_replace(s, noise_words[k]), k + 1)

\* re.sub(r'[^a-z0-9\s]', ' ', s)
SubSpecial(s) ==
    [i \in 1..Len(s) |->
        IF s[i] \in LowerSet \cup DigitSet \/ IsSpace(s[i]) THEN s[i] ELSE " "]

\* re.sub(r'[^a-zA-Z0-9\s]', ' ', s)
SubSymbols(s) ==
    [i \in 1..Len(s) |->
        IF s[i] \in LowerSet \cup UpperSet \cup DigitSet \/ IsSpace(s[i])
        THEN s[i] ELSE " "]

NotAColor(p) == p \notin colors_to_remove

clean_str(s) ==
    IF s = NaN THEN <<>>
    ELSE str_join(SelectSeq(str_split(SubSpecial(RemoveNoise(str_lower(s), 1))),
                            NotAColor))

clean_display_str(s) ==
    IF s = NaN THEN s
    ELSE str_title(str_join(str_split(SubSymbols(s))))

-----------------------------------------------------------------------------
(* The similarity ratio and the best-match search of the fuzzy library     *)

Max2(a, b) == IF a >= b THEN a ELSE b

RECURSIVE LcsRow(_, _, _, _)
\* One row of the longest-common-subsequence table: acc[j + 1] is the entry
\* of column j, prev the row above.
LcsRow(prev, c, b, acc) ==
    IF Len(acc) = Len(b) + 1 THEN acc
    ELSE LET j == Len(acc)
         IN LcsRow(prev, c, b,
                   Append(acc, IF b[j] = c THEN prev[j] + 1
                               ELSE Max2(prev[j + 1], acc[j])))

RECURSIVE LcsRows(_, _, _, _)
\* Row after row; every row has Len(b) + 1 entries (reading its length makes
\* TLC compute the row before the next one is started).
LcsRows(a, b, i, prev) ==
    IF i > Len(a) \/ Len(prev) # Len(b) + 1 THEN prev[Len(b) + 1]
    ELSE LcsRows(a, b, i + 1, LcsRow(prev, a[i], b, <<0>>))

Lcs(a, b) == LcsRows(a, b, 1, [j \in 1..Len(b) + 1 |-> 0])

\* fuzz.ratio: 100 * 2 * lcs / (len1 + len2), kept as the exact fraction
\* num / den; two empty strings are identical and score 100.
ratio(s1, s2) ==
    IF Len(s1) + Len(s2) = 0 THEN [num |-> 100, den |-> 1]
    ELSE [num |-> 200 * Lcs(s1, s2), den |-> Len(s1) + Len(s2)]

\* A cutoff that a score has to exceed: a score equal to it is rejected
ScoreAbove(sc, cutoff) == sc.num > cutoff * sc.den

ScoreAtLeast(sc, cutoff) == sc.num >= cutoff * sc.den

ScoreGreater(sc, other) == sc.num * other.den > other.num * sc.den

RECURSIVE ExtractFrom(_, _, _, _, _)
\* The scan of process.extractOne: a choice replaces the best one so far only
\* with a strictly greater score, and only scores >= score_cutoff count.
ExtractFrom(query, choices, score_cutoff, i, best) ==
    IF i > Len(choices) THEN best.idx
    ELSE LET sc == ratio(query, choices[i])
         IN IF /\ ScoreAtLeast(sc, score_cutoff)
               /\ (best.idx = 0 \/ ScoreGreater(sc, best.score))
            THEN ExtractFrom(query, choices, score_cutoff, i + 1,
                             [idx |-> i, score |-> sc])
            ELSE ExtractFrom(query, choices, score_cutoff, i + 1, best)

\* process.extractOne(query, choices, scorer=fuzz.ratio, score_cutoff=...):
\* the index of the match in choices, 0 for None
extractOne(query, choices, score_cutoff) ==
    ExtractFrom(query, choices, score_cutoff, 1,
                [idx |-> 0, score |-> [num |-> 0, den |-> 1]])

-----------------------------------------------------------------------------
(* Raw product labels                                                      *)

\* "ARRENDAMIENTO"
LblArrUpper == <<"A", "R", "R", "E", "N", "D", "A", "M", "I", "E", "N", "T", "O">>

\* "Arrendamiento Local 5"
LblArrLocal == <<"A", "r", "r", "e", "n", "d", "a", "m", "i", "e", "n", "t", "o", " ", "L", "o", "c", "a", "l", " ", "5">>

\* "renta arrendamiento"
LblArrLower == <<"r", "e", "n", "t", "a", " ", "a", "r", "r", "e", "n", "d", "a", "m", "i", "e", "n", "t", "o">>

\* "LINO ROJO"
LblLinoRojo == <<"L", "I", "N", "O", " ", "R", "O", "J", "O">>

\* "Linos"
LblLinos == <<"L", "i", "n", "o", "s">>

\* "vinil marino plus 140cm"
LblVinil85 == <<"v", "i", "n", "i", "l", " ", "m", "a", "r", "i", "n", "o", " ", "p", "l", "u", "s", " ", "1", "4", "0", "c", "m">>

\* "vinil marino plus 1.40 m"
LblVinil82 == <<"v", "i", "n", "i", "l", " ", "m", "a", "r", "i", "n", "o", " ", "p", "l", "u", "s", " ", "1", ".", "4", "0", " ", "m">>

\* "lona ahulada 25"
LblLona25 == <<"l", "o", "n", "a", " ", "a", "h", "u", "l", "a", "d", "a", " ", "2", "5">>

\* "###"
LblSymbols == <<"#", "#", "#">>

\* "Tela-X"
LblTelaX == <<"T", "e", "l", "a", "-", "X">>

\* "tapiz oslo #3"
LblOslo3 == <<"t", "a", "p", "i", "z", " ", "o", "s", "l", "o", " ", "#", "3">>

\* "OSLO GRIS"
LblOsloGris == <<"O", "S", "L", "O", " ", "G", "R", "I", "S">>

Labels ==
    { LblArrUpper, LblArrLocal, LblArrLower, LblLinoRojo, LblLinos, LblVinil85,
      LblVinil82, LblLona25, LblSymbols, LblTelaX, LblOslo3, LblOsloGris, NaN }

-----------------------------------------------------------------------------
(* The canonical catalog and normalize_products                            *)

\* product_catalog.CANONICAL_PRODUCTS: a small catalog with the shapes the
\* matcher distinguishes (two names with one key, a key of noise words and
\* colors, a long key, two keys close to each other)
CANONICAL_PRODUCTS ==
    << <<"L", "i", "n", "o", " ", "N", "e", "g", "r", "o">>,
       <<"L", "i", "n", "o", " ", "A", "z", "u", "l">>,
       <<"V", "i", "n", "i", "l", " ", "M", "a", "r", "i", "n", "o", " ", "P", "l", "u", "s">>,
       <<"T", "a", "p", "i", "z", " ", "A", "m", "e", "r", "i", "c", "a", "n", "o", " ", "O", "s", "l", "o">>,
       <<"L", "o", "n", "a", " ", "A", "h", "u", "l", "a", "d", "a">>,
       <<"L", "o", "n", "a", " ", "A", "h", "u", "l", "a", "d", "a", " ", "2">> >>

threshold == 85

ARRENDAMIENTO == <<"A", "R", "R", "E", "N", "D", "A", "M", "I", "E", "N", "T", "O">>

RECURSIVE KeysFrom(_, _)
\* The keys of a dict comprehension, in order of first insertion
KeysFrom(i, acc) ==
    IF i > Len(CANONICAL_PRODUCTS) THEN acc
    ELSE LET k == clean_str(CANONICAL_PRODUCTS[i])
         IN IF \E j \in 1..Len(acc) : acc[j] = k
            THEN KeysFrom(i + 1, acc)
            ELSE KeysFrom(i + 1, Append(acc, k))

canonical_cleaned_keys == KeysFrom(1, <<>>)

KeySet == {canonical_cleaned_keys[i] : i \in 1..Len(canonical_cleaned_keys)}

\* canonical_map[k]: the last catalog name that cleans to k (the later write
\* of the dict comprehension wins)
canonical_map(k) ==
    CANONICAL_PRODUCTS[
        CHOOSE i \in 1..Len(CANONICAL_PRODUCTS) :
            /\ clean_str(CANONICAL_PRODUCTS[i]) = k
            /\ \A j \in (i + 1)..Len(CANONICAL_PRODUCTS) :
                   clean_str(CANONICAL_PRODUCTS[j]) # k]

\* str.contains without case=False: only the capitals match
ContainsArrendamientoCaseSensitive(label) ==
    /\ label # NaN
    /\ Contains(label, ARRENDAMIENTO)

\* df['producto'].str.contains('ARRENDAMIENTO', case=False, na=False)
ContainsArrendamiento(label) ==
    /\ label # NaN
    /\ Contains(str_lower(label), str_lower(ARRENDAMIENTO))

\* The first statement of normalize_products: the rows of the rental fee
GroupArrendamiento(label) ==
    IF ContainsArrendamiento(label) THEN ARRENDAMIENTO ELSE label

\* The loop body without its exact-match step: every cleaned label goes to
\* the fuzzy search
MatchNameFuzzyOnly(name) ==
    IF name = ARRENDAMIENTO
    THEN [value |-> name, rule |-> "arrendamiento"]
    ELSE LET cleaned_input == clean_str(name)
             match == extractOne(cleaned_input, canonical_cleaned_keys,
                                 threshold)
         IN IF match # 0
            THEN [value |-> canonical_map(canonical_cleaned_keys[match]),
                  rule |-> "fuzzy"]
            ELSE [value |-> clean_display_str(name), rule |-> "fallback"]

\* The body of the loop over unique_products: mapping[name], with the rule
\* that produced it
MatchName(name) ==
    IF name = ARRENDAMIENTO
    THEN [value |-> name, rule |-> "arrendamiento"]
    ELSE LET cleaned_input == clean_str(name)
         IN IF cleaned_input \in KeySet
            THEN [value |-> canonical_map(cleaned_input), rule |-> "exact"]
            ELSE LET match == extractOne(cleaned_input, canonical_cleaned_keys,
                                         threshold)
                 IN IF match # 0
                    THEN [value |-> canonical_map(canonical_cleaned_keys[match]),
                          rule |-> "fuzzy"]
                    ELSE [value |-> clean_display_str(name),
                          rule |-> "fallback"]

\* The mapping dict: the loop runs once per distinct label, here once per
\* label of the checks
mapping ==
    [name \in {GroupArrendamiento(l) : l \in Labels} \ {NaN} |-> MatchName(name)]

MappingOf(name) ==
    IF name \in DOMAIN mapping THEN mapping[name] ELSE MatchName(name)

\* df['producto'].map(mapping): Series.map leaves a missing cell missing
MapCell(p) == IF p = NaN THEN NaN ELSE MappingOf(p).value

NormalizeRow(r) ==
    LET p == GroupArrendamiento(r.producto)
    IN [producto |-> MapCell(p),
        producto_normalizado |-> MapCell(p),
        producto_original |-> p] @@ r

normalize_products(t) ==
    [columns |-> t.columns \cup {"producto_normalizado", "producto_original"},
     rows |-> [i \in 1..Len(t.rows) |-> NormalizeRow(t.rows[i])]]

\* The branch of the loop each row's name went through ("none" for a
\* missing cell, which is not in unique_products)
normalize_trace(t) ==
    [i \in 1..Len(t.rows) |->
        LET p == GroupArrendamiento(t.rows[i].producto)
        IN IF p = NaN THEN "none" ELSE MappingOf(p).rule]

\* No table yet
NoDf == [columns |-> {"NoDf"}, rows |-> <<>>]

-----------------------------------------------------------------------------
(* Dates and the cells of the source file                                  *)

\* A Timestamp is <<year, month, day>>; NaT is the missing one
NaT == <<0, 0, 0>>

IsLeap(y) == (y % 4 = 0 /\ y % 100 # 0) \/ y % 400 = 0

DaysInMonth(y, m) ==
    IF m = 2 THEN (IF IsLeap(y) THEN 29 ELSE 28)
    ELSE IF m \in {4, 6, 9, 11} THEN 30 ELSE 31

\* pd.to_datetime(cell, format='%d/%m/%Y', errors='coerce'): a cell is NaN or
\* the three numbers <<dd, mm, yyyy>> of its text
to_datetime(cell) ==
    IF cell = NaN THEN NaT
    ELSE IF /\ cell[2] \in 1..12
            /\ cell[3] >= 1
            /\ cell[1] \in 1..DaysInMonth(cell[3], cell[2])
         THEN <<cell[3], cell[2], cell[1]>>
         ELSE NaT

\* Series.dt.to_period('M')
to_period_M(ts) == IF ts = NaT THEN NaT ELSE <<ts[1], ts[2], 0>>

\* pd.to_numeric(cell, errors='coerce') then fillna(0): a numeric cell is
\* <<n>>, a cell that is no number (text, or empty) is <<>>
to_numeric_fillna0(cell) == IF Len(cell) = 1 THEN cell[1] ELSE 0

DateBefore(a, b) ==
    \/ a[1] < b[1]
    \/ a[1] = b[1] /\ a[2] < b[2]
    \/ a[1] = b[1] /\ a[2] = b[2] /\ a[3] < b[3]

-----------------------------------------------------------------------------
(* The source file and read_csv                                            *)

ColumnChars ==
    [ fecha |-> <<"f", "e", "c", "h", "a">>,
      cliente_nombre |-> <<"c", "l", "i", "e", "n", "t", "e", "_", "n", "o", "m", "b", "r", "e">>,
      producto |-> <<"p", "r", "o", "d", "u", "c", "t", "o">>,
      venta_neta |-> <<"v", "e", "n", "t", "a", "_", "n", "e", "t", "a">>,
      cantidad |-> <<"c", "a", "n", "t", "i", "d", "a", "d">>,
      factura_id |-> <<"f", "a", "c", "t", "u", "r", "a", "_", "i", "d">> ]

\* A header as exported: stray spaces and capitals
HeaderRaw ==
    << <<" ", "F", "e", "c", "h", "a">>,
       <<"C", "l", "i", "e", "n", "t", "e", "_", "N", "o", "m", "b", "r", "e">>,
       <<"P", "r", "o", "d", "u", "c", "t", "o", " ">>,
       <<"V", "E", "N", "T", "A", "_", "N", "E", "T", "A">>,
       <<"c", "a", "n", "t", "i", "d", "a", "d">>,
       <<"f", "a", "c", "t", "u", "r", "a", "_", "i", "d">> >>

HeaderPlain ==
    << <<"f", "e", "c", "h", "a">>,
       <<"c", "l", "i", "e", "n", "t", "e", "_", "n", "o", "m", "b", "r", "e">>,
       <<"p", "r", "o", "d", "u", "c", "t", "o">>,
       <<"v", "e", "n", "t", "a", "_", "n", "e", "t", "a">>,
       <<"c", "a", "n", "t", "i", "d", "a", "d">>,
       <<"f", "a", "c", "t", "u", "r", "a", "_", "i", "d">> >>

\* No file at DATA_PATH (FileNotFoundError)
FileMissing == [kind |-> "missing", header |-> <<>>, rows |-> <<>>]

\* A file of zero bytes (EmptyDataError)
FileEmpty == [kind |-> "empty", header |-> <<>>, rows |-> <<>>]

\* Bytes that are not UTF-8 (UnicodeDecodeError)
FileBinary == [kind |-> "binary", header |-> <<>>, rows |-> <<>>]

\* A product column of numbers only: pandas reads it as a numeric column
FileNumeric ==
    [kind |-> "csv", header |-> HeaderPlain,
     rows |-> << << <<5, 1, 2025>>, "ACME", <<"1", "2">>, <<10>>, <<1>>, "F1" >> >>]

FileA ==
    [kind |-> "csv", header |-> HeaderRaw,
     rows |-> << << <<15, 3, 2024>>, "ACME", LblArrLocal, <<6000>>, <<1>>, "F1" >>,
                 << <<31, 2, 2024>>, "ACME", LblLinos, <<>>, <<2>>, "F2" >> >>]

FileB ==
    [kind |-> "csv", header |-> HeaderPlain,
     rows |-> << << <<10, 1, 2025>>, "BETA", LblTelaX, <<100>>, <<3>>, "F7" >> >>]

\* What an upload may write, and what DATA_PATH may hold at start
UploadFiles == {FileEmpty, FileBinary, FileNumeric, FileA, FileB}

StartFiles == {FileMissing, FileA}

RECURSIVE LStrip(_)
LStrip(s) == IF Len(s) > 0 /\ IsSpace(s[1]) THEN LStrip(Tail(s)) ELSE s

RECURSIVE RStrip(_)
RStrip(s) ==
    IF Len(s) > 0 /\ IsSpace(s[Len(s)]) THEN RStrip(SubSeq(s, 1, Len(s) - 1))
    ELSE s

\* str.strip()
str_strip(s) == LStrip(RStrip(s))

\* df.columns.str.strip().str.lower(), as the field name of the column
StandardColumn(h) ==
    CHOOSE c \in DOMAIN ColumnChars : ColumnChars[c] = str_lower(str_strip(h))

\* The marker of a call that raised instead of returning a table
Raised == [columns |-> {"<raised>"}, rows |-> <<>>]

\* pd.DataFrame(): no columns, no rows
pd_DataFrame == [columns |-> {}, rows |-> <<>>]

\* pd.read_csv(file_path, encoding='utf-8-sig') with the header standardized
\* (load_data, first two statements)
read_csv(f) ==
    IF f.kind # "csv" THEN Raised
    ELSE [columns |-> {StandardColumn(f.header[j]) : j \in 1..Len(f.header)},
          rows |-> [i \in 1..Len(f.rows) |->
                      [c \in {StandardColumn(f.header[j]) : j \in 1..Len(f.header)} |->
                          f.rows[i][CHOOSE j \in 1..Len(f.header) :
                                        StandardColumn(f.header[j]) = c]]]]

IsDigits(s) == s # NaN /\ \A i \in 1..Len(s) : s[i] \in DigitSet

\* The product column holds no str (numbers and empty cells only), so that
\* its .str accessor raises AttributeError
ProductoNotStr(t) ==
    /\ Len(t.rows) > 0
    /\ \A i \in 1..Len(t.rows) :
           t.rows[i].producto = NaN \/ IsDigits(t.rows[i].producto)

numeric_cols == {"venta_neta", "cantidad", "precio_unitario", "total_linea", "importetotal"}

\* The date and numeric coercions of load_data on one row
CoerceRow(r) ==
    [c \in DOMAIN r |->
        IF c = "fecha" THEN to_datetime(r[c])
        ELSE IF c \in numeric_cols THEN to_numeric_fillna0(r[c])
        ELSE r[c]]

AddMonthYear(r) ==
    IF "fecha" \in DOMAIN r THEN [month_year |-> to_period_M(r.fecha)] @@ r ELSE r

Coerce(t) ==
    [columns |-> IF "fecha" \in t.columns THEN t.columns \cup {"month_year"}
                 ELSE t.columns,
     rows |-> [i \in 1..Len(t.rows) |-> AddMonthYear(CoerceRow(t.rows[i]))]]

\* The try block of load_data: the table, or Raised where a statement raises
load_data_try(f) ==
    IF read_csv(f) = Raised THEN Raised
    ELSE IF "producto" \notin read_csv(f).columns THEN Coerce(read_csv(f))
    ELSE IF ProductoNotStr(read_csv(f)) THEN Raised
    ELSE normalize_products(Coerce(read_csv(f)))

\* load_data without its except clause: a raising statement is not caught
load_data_uncaught(f) == load_data_try(f)

\* load_data without the cache: except Exception returns pd.DataFrame()
load_data(f) ==
    IF load_data_try(f) = Raised THEN pd_DataFrame ELSE load_data_try(f)

-----------------------------------------------------------------------------
(* The report handlers: which of them raise on a table                     *)

RECURSIVE MaxDateFrom(_, _, _)
MaxDateFrom(rows, i, best) ==
    IF i > Len(rows) THEN best
    ELSE MaxDateFrom(rows, i + 1,
                     IF rows[i].fecha # NaT /\ (best = NaT \/ DateBefore(best, rows[i].fecha))
                     THEN rows[i].fecha ELSE best)

\* df['fecha'].max(): the as-of date, NaT when no row has a date
AsOfDate(t) == MaxDateFrom(t.rows, 1, NaT)

\* df.empty
IsEmptyTable(t) == t.columns = {} \/ Len(t.rows) = 0

\* get_monthly_comparison_data(df, today): KeyError for a missing column,
\* ValueError from today.strftime when today is NaT
get_monthly_comparison_data_raises(t) ==
    \/ ~({"fecha", "venta_neta", "factura_id", "cantidad"} \subseteq t.columns)
    \/ AsOfDate(t) = NaT

\* get_inactive_customers_data(df, today), with today = df['fecha'].max()
get_inactive_customers_data_raises(t) ==
    ~({"fecha", "cliente_nombre", "venta_neta", "cantidad"} \subseteq t.columns)

\* get_stale_products_data(df, today), with today = df['fecha'].max()
get_stale_products_data_raises(t) ==
    ~({"fecha", "producto", "venta_neta", "cantidad"} \subseteq t.columns)

generate_executive_summary_raises(t) ==
    \/ get_monthly_comparison_data_raises(t)
    \/ get_inactive_customers_data_raises(t)
    \/ get_stale_products_data_raises(t)

\* The bundle of get_all_reminders and of push_to_n8n: df['fecha'] raises
\* KeyError without the column, df['fecha'].min().strftime raises on NaT
reminders_bundle_raises(t) ==
    \/ ~({"fecha", "cliente_nombre", "producto", "venta_neta", "cantidad"}
            \subseteq t.columns)
    \/ AsOfDate(t) = NaT
    \/ generate_executive_summary_raises(t)

\* The global date filter of the dashboard script: df['fecha'].min()
date_filter_raises(t) == "fecha" \notin t.columns

\* calculate_rfm_scores(dataframe): dataframe['fecha'] and the groupby columns
calculate_rfm_scores_raises(t) ==
    ~({"fecha", "cliente_nombre", "factura_id", "venta_neta"} \subseteq t.columns)

-----------------------------------------------------------------------------
(* The two processes, their loader caches and the handlers                 *)

Procs == {"app", "api"}

\* No entry for DATA_PATH in the cache of load_data
NoEntry == [columns |-> {"<no entry>"}, rows |-> <<>>]

\* A hit that runs the product normalization on the stored table once more
CachedValueRenormalized(entry) ==
    IF "producto" \in entry.columns THEN normalize_products(entry) ELSE entry

\* What st.cache_data hands back on a hit: the stored table
CachedValue(entry) == entry

\* The writes in which shutil.copyfileobj(file.file, buffer) puts the content
\* f on disk: the header line and each row of a CSV, one write of other bytes
Chunks(f) ==
    IF f.kind = "csv" THEN 1 + Len(f.rows)
    ELSE IF f.kind = "empty" THEN 0 ELSE 1

\* DATA_PATH after open(save_path, "wb"), which truncates it to zero bytes,
\* and the first k writes of f
Written(f, k) ==
    IF k = Chunks(f) THEN f
    ELSE IF k = 0 THEN FileEmpty
    ELSE [kind |-> "csv", header |-> f.header, rows |-> SubSeq(f.rows, 1, k - 1)]

\* What DATA_PATH can hold while an upload is writing it
PartialFiles ==
    UNION { { Written(f, k) : k \in 0..Chunks(f) } : f \in UploadFiles }

\* load_data on every content DATA_PATH can have, computed once
LoadedTable == [f \in UploadFiles \cup StartFiles \cup PartialFiles |-> load_data(f)]

\* @st.cache_data on load_data: the key is the path argument alone, and
\* every call in the program passes DATA_PATH
CachedLoad(p) ==
    IF cache[p] # NoEntry THEN CachedValue(cache[p]) ELSE LoadedTable[file]

IsHit(p) == cache[p] # NoEntry

\* The bookkeeping of a call of load_data(DATA_PATH) by process p
LoadBy(p) ==
    /\ df' = [df EXCEPT ![p] = CachedLoad(p)]
    /\ prevDf' = [prevDf EXCEPT ![p] = df[p]]
    /\ info' = [info EXCEPT ![p] = [hit |-> IsHit(p),
                                    same |-> ~stale[p],
                                    cleared |-> clearedSince[p]]]

\* A handler that loads and writes nothing
LoadOnly(p) ==
    /\ LoadBy(p)
    /\ cache' = [cache EXCEPT ![p] = IF IsHit(p) THEN @ ELSE CachedLoad(p)]
    /\ stale' = [stale EXCEPT ![p] = IF IsHit(p) THEN @ ELSE FALSE]
    /\ clearedSince' = [clearedSince EXCEPT ![p] = FALSE]
    /\ UNCHANGED <<file, uploaded>>

Result(raises) == IF raises THEN "raised" ELSE "ok"

\* GET /api/reminders
GetAllReminders ==
    /\ LoadOnly("api")
    /\ last' = [proc |-> "api", op |-> "get_all_reminders",
                result |-> Result(reminders_bundle_raises(CachedLoad("api")))]
    /\ UNCHANGED <<webhook, writer, offlineVars>>

\* How requests.post(N8N_WEBHOOK_URL, ..., timeout=60) can end: a response
\* with a 2xx status, a response with another status, or an exception
Deliveries == {"2xx", "non2xx", "timeout", "network error"}

\* No request sent
NoWebhook == [delivery |-> "none", posts |-> 0]

\* POST /api/push-to-n8n: the bundle, then one requests.post; a response of
\* any status is reported as success, an exception as failure
PushToN8n ==
    /\ LoadOnly("api")
    /\ \E delivery \in Deliveries :
          IF reminders_bundle_raises(CachedLoad("api"))
          THEN /\ last' = [proc |-> "api", op |-> "push_to_n8n",
                           result |-> "raised"]
               /\ webhook' = NoWebhook
          ELSE /\ last' = [proc |-> "api", op |-> "push_to_n8n",
                           result |-> IF delivery \in {"timeout", "network error"}
                                      THEN "failure" ELSE "success"]
               /\ webhook' = [delivery |-> delivery, posts |-> 1]
    /\ UNCHANGED <<writer, offlineVars>>

\* GET /api/reminders/meta-ventas
GetMonthlyTarget ==
    /\ LoadOnly("api")
    /\ last' = [proc |-> "api", op |-> "get_monthly_target",
                result |-> Result(get_monthly_comparison_data_raises(CachedLoad("api")))]
    /\ UNCHANGED <<webhook, writer, offlineVars>>

\* GET /api/reminders/clientes-inactivos
GetInactiveCustomers ==
    /\ LoadOnly("api")
    /\ last' = [proc |-> "api", op |-> "get_inactive_customers",
                result |-> Result(get_inactive_customers_data_raises(CachedLoad("api")))]
    /\ UNCHANGED <<webhook, writer, offlineVars>>

\* GET /api/reminders/productos-sin-movimiento
GetStaleProducts ==
    /\ LoadOnly("api")
    /\ last' = [proc |-> "api", op |-> "get_stale_products",
                result |-> Result(get_stale_products_data_raises(CachedLoad("api")))]
    /\ UNCHANGED <<webhook, writer, offlineVars>>

\* POST /api/upload-data: the file is overwritten (or open fails and the
\* handler answers success = false); the cache is not touched
UploadData ==
    /\ \E f \in UploadFiles, written \in BOOLEAN :
          /\ file' = IF written THEN f ELSE file
          /\ stale' = IF written THEN [p \in Procs |-> TRUE] ELSE stale
          /\ uploaded' = (uploaded \/ written)
          /\ last' = [proc |-> "api", op |-> "upload_data",
                      result |-> IF written THEN "success" ELSE "failure"]
    /\ UNCHANGED <<cache, df, prevDf, info, clearedSince>>
    /\ UNCHANGED <<webhook, writer, offlineVars>>

\* A run of the dashboard script that renders a view: load_data, then the
\* global date filter, then the selected view
ScriptRun ==
    /\ LoadOnly("app")
    /\ last' = [proc |-> "app", op |-> "script_run",
                result |-> Result(date_filter_raises(CachedLoad("app")))]
    /\ UNCHANGED <<webhook, writer, offlineVars>>

\* The run in which "Confirmar y Actualizar" of render_config is pressed: the
\* script loads and filters first, then writes the file and clears the
\* cache; a failed write is shown and clears nothing
\* (st.rerun() ends the run; the run it requests is the next ScriptRun)
ConfigUpload ==
    /\ ~date_filter_raises(CachedLoad("app"))
    /\ LoadBy("app")
    /\ \E f \in UploadFiles, written \in BOOLEAN :
          /\ file' = IF written THEN f ELSE file
          /\ cache' = [cache EXCEPT !["app"] =
                          IF written THEN NoEntry
                          ELSE IF IsHit("app") THEN @ ELSE CachedLoad("app")]
          /\ stale' = IF written THEN [p \in Procs |-> TRUE]
                      ELSE [stale EXCEPT !["app"] = IF IsHit("app") THEN @ ELSE FALSE]
          /\ clearedSince' = [clearedSince EXCEPT !["app"] = written]
          /\ uploaded' = (uploaded \/ written)
          /\ last' = [proc |-> "app", op |-> "config_upload",
                      result |-> IF written THEN "success" ELSE "failure"]
    /\ UNCHANGED <<webhook, writer, offlineVars>>

\* The run in which "Limpiar Cache Manualmente" is pressed
ConfigClearCache ==
    /\ ~date_filter_raises(CachedLoad("app"))
    /\ LoadBy("app")
    /\ cache' = [cache EXCEPT !["app"] = NoEntry]
    /\ stale' = [stale EXCEPT !["app"] = IF IsHit("app") THEN @ ELSE FALSE]
    /\ clearedSince' = [clearedSince EXCEPT !["app"] = TRUE]
    /\ last' = [proc |-> "app", op |-> "config_clear_cache", result |-> "ok"]
    /\ UNCHANGED <<file, uploaded>>
    /\ UNCHANGED <<webhook, writer, offlineVars>>

ReportOps ==
    {"get_all_reminders", "push_to_n8n", "get_monthly_target",
     "get_inactive_customers", "get_stale_products", "script_run"}

\* The parts of the state that a specification leaves alone
NormIdle == rawDf = NoDf /\ normDf = NoDf /\ matchTrace = <<>>

CleanIdle == cleanIn = <<>> /\ cleanOut = [done |-> FALSE]

ReportIdle == table = NoDf /\ report = [op |-> "none"]

CallIdle == call = [fn |-> "none"] /\ ret = [done |-> FALSE]

\* A session in which the script has not run
NoSession ==
    [failed_attempts |-> 0, lockout_until |-> <<>>, password_correct |-> "absent"]

LoginIdle == session = NoSession /\ now = 0 /\ shown = "nothing"

\* No upload has DATA_PATH open
NoWriter == [open |-> FALSE]

SysIdle ==
    /\ file = FileMissing
    /\ cache = [p \in Procs |-> NoEntry]
    /\ df = [p \in Procs |-> NoDf]
    /\ prevDf = [p \in Procs |-> NoDf]
    /\ info = [p \in Procs |-> [hit |-> FALSE, same |-> FALSE, cleared |-> FALSE]]
    /\ stale = [p \in Procs |-> FALSE]
    /\ clearedSince = [p \in Procs |-> FALSE]
    /\ uploaded = FALSE
    /\ last = [proc |-> "none", op |-> "none", result |-> "none"]
    /\ webhook = NoWebhook
    /\ writer = NoWriter

Init ==
    /\ file \in StartFiles
    /\ cache = [p \in Procs |-> NoEntry]
    /\ df = [p \in Procs |-> NoDf]
    /\ prevDf = [p \in Procs |-> NoDf]
    /\ info = [p \in Procs |-> [hit |-> FALSE, same |-> FALSE, cleared |-> FALSE]]
    /\ stale = [p \in Procs |-> FALSE]
    /\ clearedSince = [p \in Procs |-> FALSE]
    /\ uploaded = FALSE
    /\ last = [proc |-> "none", op |-> "none", result |-> "none"]
    /\ webhook = NoWebhook
    /\ writer = NoWriter
    /\ NormIdle
    /\ CleanIdle
    /\ ReportIdle
    /\ CallIdle
    /\ LoginIdle

Next ==
    \/ GetAllReminders
    \/ PushToN8n
    \/ GetMonthlyTarget
    \/ GetInactiveCustomers
    \/ GetStaleProducts
    \/ UploadData
    \/ ScriptRun
    \/ ConfigUpload
    \/ ConfigClearCache

Spec == Init /\ [][Next]_vars

-----------------------------------------------------------------------------
(* normalize_products on tables of raw labels                              *)

MaxRows == 2

LabelTables ==
    UNION { [1..n -> Labels] : n \in 1..MaxRows }

InitNorm ==
    /\ rawDf \in { [columns |-> {"producto"},
                    rows |-> [i \in DOMAIN ls |-> [producto |-> ls[i]]]] :
                   ls \in LabelTables }
    /\ normDf = NoDf
    /\ matchTrace = <<>>
    /\ file = FileMissing
    /\ cache = [p \in Procs |-> NoEntry]
    /\ df = [p \in Procs |-> NoDf]
    /\ prevDf = [p \in Procs |-> NoDf]
    /\ info = [p \in Procs |-> [hit |-> FALSE, same |-> FALSE, cleared |-> FALSE]]
    /\ stale = [p \in Procs |-> FALSE]
    /\ clearedSince = [p \in Procs |-> FALSE]
    /\ uploaded = FALSE
    /\ last = [proc |-> "none", op |-> "none", result |-> "none"]
    /\ webhook = NoWebhook
    /\ writer = NoWriter
    /\ CleanIdle
    /\ ReportIdle
    /\ CallIdle
    /\ LoginIdle

\* normalize_products(df), called once on the freshly read table
Normalize ==
    /\ normDf = NoDf
    /\ normDf' = normalize_products(rawDf)
    /\ matchTrace' = normalize_trace(rawDf)
    /\ UNCHANGED rawDf
    /\ UNCHANGED <<sysVars, cleanVars, reportVars, callVars, loginVars>>

NextNorm == Normalize

SpecNorm == InitNorm /\ [][NextNorm]_vars

-----------------------------------------------------------------------------
(* Properties of the loader cache and of the handlers (Spec)               *)

\* C1: after an upload has overwritten the source file, every report
\* requested afterwards, from the dashboard or from the API, is computed
\* from the table of the new file content.
C1_ReportsAfterUploadUseNewContent ==
    (uploaded /\ last.op \in ReportOps) => df[last.proc] = load_data(file)

\* C2: a cached table is served only for the content it was built from: in
\* every state, the entry a process holds for DATA_PATH is the table of the
\* current file content, so that a load after a change of content returns
\* the table of the current content without any cache clear.
C2_CacheEntryMatchesContent ==
    \A p \in Procs : cache[p] # NoEntry => cache[p] = load_data(file)

C4_ReportsOnEmptyTableNeverRaise ==
    (last.op \in ReportOps /\ IsEmptyTable(df[last.proc])) =>
        last.result # "raised"

\* The file cannot be read or processed: it is missing, empty or not UTF-8,
\* or its product column holds numbers only
ReadOrProcessingFails(f) ==
    \/ f.kind # "csv"
    \/ /\ Len(f.rows) > 0
       /\ \E j \in 1..Len(f.header) :
             /\ str_lower(str_strip(f.header[j])) = ColumnChars.producto
             /\ \A i \in 1..Len(f.rows) :
                    f.rows[i][j] = NaN \/ IsDigits(f.rows[i][j])

\* C5: load_data never raises; when reading or processing the file fails,
\* the call returns the empty table.
C5_LoadDataNeverRaises ==
    \A p \in Procs :
        /\ df[p] # Raised
        /\ (/\ last.proc = p
            /\ last.op \in ReportOps
            /\ ~info[p].hit
            /\ ReadOrProcessingFails(file)) => df[p] = pd_DataFrame

\* C5, its case: a load that read a file whose product normalization fails
C5_Witness ==
    /\ last.op \in ReportOps
    /\ ~info[last.proc].hit
    /\ file = FileNumeric
    /\ df[last.proc] = pd_DataFrame

-----------------------------------------------------------------------------
(* Properties of normalize_products (SpecNorm)                             *)

\* clean_str and the scores of the labels of the checks, computed once
CleanedLabel == [l \in Labels |-> clean_str(l)]

ScoreTable == [l \in Labels |-> [k \in KeySet |-> ratio(CleanedLabel[l], k)]]

ScoreOf(label, k) == ScoreTable[label][k]

\* Some catalog key scores 85 or more against the cleaned label
SomeKeyAtLeast85(label) ==
    \E k \in KeySet : ScoreOf(label, k).num >= 85 * ScoreOf(label, k).den

\* The label holds ARRENDAMIENTO in some letter case
HasArrendamientoAnyCase(label) ==
    /\ label # NaN
    /\ \E i \in 1..Len(label) :
          /\ i + Len(ARRENDAMIENTO) - 1 <= Len(label)
          /\ \A k \in 1..Len(ARRENDAMIENTO) :
                 Lower(label[i + k - 1]) = Lower(ARRENDAMIENTO[k])

CatalogNames == {CANONICAL_PRODUCTS[i] : i \in 1..Len(CANONICAL_PRODUCTS)}

\* C6: for every raw label that reaches the matcher with no catalog key
\* scoring 85 or more, the normalized name is clean_display_str(raw label),
\* and for a non-empty raw label it is neither null nor the empty string.
C6_FallbackIsDisplayNameAndNonEmpty ==
    normDf # NoDf =>
        \A i \in 1..Len(rawDf.rows) :
            LET raw == rawDf.rows[i].producto
            IN (/\ raw # NaN
                /\ ~HasArrendamientoAnyCase(raw)
                /\ ~SomeKeyAtLeast85(raw)) =>
                    /\ normDf.rows[i].producto = clean_display_str(raw)
                    /\ (Len(raw) > 0 =>
                            /\ normDf.rows[i].producto # NaN
                            /\ Len(normDf.rows[i].producto) > 0)

\* C7: after normalization, producto_original of every row is the raw
\* product label read from the file for that row, whichever rule named it.
C7_ProductoOriginalIsRawLabel ==
    normDf # NoDf =>
        \A i \in 1..Len(rawDf.rows) :
            normDf.rows[i].producto_original = rawDf.rows[i].producto

\* C8: every raw label that holds ARRENDAMIENTO in any letter case is named
\* "ARRENDAMIENTO", whatever else it holds, by the special rule and not by
\* the exact or the fuzzy match.
C8_ArrendamientoMapsToLiteral ==
    normDf # NoDf =>
        \A i \in 1..Len(rawDf.rows) :
            HasArrendamientoAnyCase(rawDf.rows[i].producto) =>
                /\ normDf.rows[i].producto = ARRENDAMIENTO
                /\ normDf.rows[i].producto_normalizado = ARRENDAMIENTO
                /\ matchTrace[i] = "arrendamiento"

\* C8, its case: a label in mixed case with other content
C8_Witness ==
    /\ normDf # NoDf
    /\ \E i \in 1..Len(rawDf.rows) :
          /\ rawDf.rows[i].producto = LblArrLocal
          /\ normDf.rows[i].producto = ARRENDAMIENTO

\* C9: for every raw label whose clean_str form is a key of the pre-cleaned
\* catalog map, the normalized name is the catalog entry stored under that
\* key, and the fuzzy matcher is not consulted for the label.
C9_ExactMatchSkipsFuzzy ==
    normDf # NoDf =>
        \A i \in 1..Len(rawDf.rows) :
            LET raw == rawDf.rows[i].producto
            IN (raw # NaN /\ CleanedLabel[raw] \in KeySet) =>
                    /\ normDf.rows[i].producto = canonical_map(CleanedLabel[raw])
                    /\ matchTrace[i] \notin {"fuzzy", "fallback"}

\* C9, its case: a label that cleans to a key two catalog names share
C9_Witness ==
    /\ normDf # NoDf
    /\ \E i \in 1..Len(rawDf.rows) :
          /\ rawDf.rows[i].producto = LblLinoRojo
          /\ normDf.rows[i].producto = CANONICAL_PRODUCTS[2]
          /\ matchTrace[i] = "exact"

\* The keys with the highest score against the label
BestKeys(label) ==
    {k \in KeySet :
        \A k2 \in KeySet :
            ScoreOf(label, k).num * ScoreOf(label, k2).den
                >= ScoreOf(label, k2).num * ScoreOf(label, k).den}

\* C10: for a raw label with no exact match, a highest score of 85 or more
\* (85 included) names the label after the highest-scoring key, which is the
\* one key scoring 85 or more when there is exactly one; a highest score of
\* 84 or less never yields a catalog name.
C10_FuzzyThreshold ==
    normDf # NoDf =>
        \A i \in 1..Len(rawDf.rows) :
            LET raw == rawDf.rows[i].producto
                at85 == {k \in KeySet :
                            ScoreOf(raw, k).num >= 85 * ScoreOf(raw, k).den}
            IN (raw # NaN /\ CleanedLabel[raw] \notin KeySet) =>
                    /\ (at85 # {} =>
                            \E k \in BestKeys(raw) :
                                normDf.rows[i].producto = canonical_map(k))
                    /\ (\A k \in at85 : at85 = {k} =>
                            normDf.rows[i].producto = canonical_map(k))
                    /\ ((\A k \in KeySet :
                            ScoreOf(raw, k).num <= 84 * ScoreOf(raw, k).den) =>
                            normDf.rows[i].producto \notin CatalogNames)

\* C10, its case: a label whose best key scores exactly 85
C10_Witness ==
    /\ normDf # NoDf
    /\ \E i \in 1..Len(rawDf.rows) :
          /\ rawDf.rows[i].producto = LblVinil85
          /\ \E k \in KeySet :
                /\ ScoreOf(LblVinil85, k).num = 85 * ScoreOf(LblVinil85, k).den
                /\ normDf.rows[i].producto = canonical_map(k)

-----------------------------------------------------------------------------
(* clean_str on strings put together from fragments                        *)

MaxFragments == 3

\* Pieces of product labels: parts of a noise word, a noise word, a color,
\* a blank, a symbol, a word with a capital, a digit
Fragments ==
    { <<"t", "a">>, <<"p", "i", "z">>, <<"t", "a", "p", "i", "z">>,
      <<"r", "o", "j", "o">>, <<" ">>, <<"-">>, <<"L", "i", "n", "o">>, <<"9">> }

RECURSIVE Flatten(_)
Flatten(parts) ==
    IF parts = <<>> THEN <<>> ELSE Head(parts) \o Flatten(Tail(parts))

CleanInputs ==
    {NaN} \cup { Flatten(fs) : fs \in UNION { [1..n -> Fragments] : n \in 0..MaxFragments } }

InitClean ==
    /\ cleanIn \in CleanInputs
    /\ cleanOut = [done |-> FALSE]
    /\ SysIdle
    /\ NormIdle
    /\ ReportIdle
    /\ CallIdle
    /\ LoginIdle

\* cleaned = clean_str(x), and clean_str applied to the result once more
CleanStr ==
    /\ ~cleanOut.done
    /\ cleanOut' = [done |-> TRUE,
                    once |-> clean_str(cleanIn),
                    twice |-> clean_str(clean_str(cleanIn))]
    /\ UNCHANGED cleanIn
    /\ UNCHANGED <<sysVars, normVars, reportVars, callVars, loginVars>>

NextClean == CleanStr

SpecClean == InitClean /\ [][NextClean]_vars

-----------------------------------------------------------------------------
(* Properties of clean_str (SpecClean)                                     *)

\* C11: clean_str is idempotent: for every input string x,
\* clean_str(clean_str(x)) equals clean_str(x).
C11_CleanStrIdempotent ==
    cleanOut.done => cleanOut.twice = cleanOut.once

-----------------------------------------------------------------------------
(* The report functions: dates, amounts and group statistics               *)

\* An amount of n pesos.  Amounts (venta_neta and its sums) are integers in
\* thousandths of a peso, so that a sum can have more than two decimals
Pesos(n) == n * 1000

RECURSIVE DaysBeforeMonth(_, _)
DaysBeforeMonth(y, m) ==
    IF m = 1 THEN 0 ELSE DaysBeforeMonth(y, m - 1) + DaysInMonth(y, m - 1)

\* The day number of a Timestamp (date.toordinal)
toordinal(ts) ==
    365 * (ts[1] - 1) + ((ts[1] - 1) \div 4) - ((ts[1] - 1) \div 100)
        + ((ts[1] - 1) \div 400) + DaysBeforeMonth(ts[1], ts[2]) + ts[3]

\* (today - d).days
DaysSince(today, d) == toordinal(today) - toordinal(d)

\* round(x, 2) of an amount: the nearest hundredth, a tie to the even one
Round2(x) ==
    LET a == IF x < 0 THEN -x ELSE x
        q == a \div 10
        r == a % 10
        up == r > 5 \/ (r = 5 /\ q % 2 = 1)
        v == 10 * (IF up THEN q + 1 ELSE q)
    IN IF x < 0 THEN -v ELSE v

\* round(num / den, 2) of a quotient of amounts, num >= 0 and den > 0
Round2Frac(num, den) ==
    LET q == num \div (10 * den)
        r == num % (10 * den)
        up == 2 * r > 10 * den \/ (2 * r = 10 * den /\ q % 2 = 1)
    IN 10 * (IF up THEN q + 1 ELSE q)

\* round(num / den) of a quotient, num >= 0 and den > 0: the nearest
\* integer, a tie to the even one
RoundDiv(num, den) ==
    LET q == num \div den
        r == num % den
        up == 2 * r > den \/ (2 * r = den /\ q % 2 = 1)
    IN IF up THEN q + 1 ELSE q

RECURSIVE GCD(_, _)
GCD(a, b) == IF b = 0 THEN a ELSE GCD(b, a % b)

\* round(num / den * k) of a quotient, num >= 0 and den > 0 (the quotient is
\* reduced first)
Scaled(num, den, k) ==
    RoundDiv((num \div GCD(num, den)) * k, den \div GCD(num, den))

RECURSIVE SumVenta(_)
\* Series.sum() of venta_neta
SumVenta(rows) ==
    IF rows = <<>> THEN 0 ELSE Head(rows).venta_neta + SumVenta(Tail(rows))

\* The rows of one group of df.groupby(col)
GroupRows(rows, col, k) ==
    LET InGroup(r) == r[col] = k IN SelectSeq(rows, InGroup)

\* The keys of df.groupby(col)
GroupKeys(rows, col) == { rows[i][col] : i \in 1..Len(rows) }

\* 'fecha': 'count' counts the dates that are not NaT
CountFecha(rows) ==
    LET HasDate(r) == r.fecha # NaT IN Len(SelectSeq(rows, HasDate))

\* df.groupby(col).agg({'venta_neta': 'sum', 'fecha': ['max', 'count']}) with
\* the column of days since the last date.  The days of a group without a
\* date are NaN: the field is -1 then, and it is read only where ultima is
\* tested first
GroupStats(rows, col, today) ==
    [k \in GroupKeys(rows, col) |->
        LET g == GroupRows(rows, col, k)
        IN [total_ventas |-> SumVenta(g),
            ultima |-> MaxDateFrom(g, 1, NaT),
            transacciones |-> CountFecha(g),
            dias |-> IF MaxDateFrom(g, 1, NaT) = NaT \/ today = NaT THEN -1
                     ELSE DaysSince(today, MaxDateFrom(g, 1, NaT))]]

\* head(k) of the entities S sorted by val ascending
SmallestBy(S, val, k) ==
    IF Cardinality(S) <= k THEN S
    ELSE CHOOSE T \in SUBSET S :
            /\ Cardinality(T) = k
            /\ \A a \in T, b \in S \ T : val[a] <= val[b]

\* nlargest(k) of the entities S by val, or head(k) of S sorted descending
LargestBy(S, val, k) ==
    IF Cardinality(S) <= k THEN S
    ELSE CHOOSE T \in SUBSET S :
            /\ Cardinality(T) = k
            /\ \A a \in T, b \in S \ T : val[a] >= val[b]

RECURSIVE SumOver(_, _)
\* Series.sum() of the column val over the entities S
SumOver(S, val) ==
    IF S = {} THEN 0
    ELSE LET a == CHOOSE x \in S : TRUE IN val[a] + SumOver(S \ {a}, val)

\* dias >= n and dias > n on the statistics of one entity: a comparison with
\* the NaN of an entity without a date is False
DaysAtLeast(st, n) == st.ultima # NaT /\ st.dias >= n

DaysOver(st, n) == st.ultima # NaT /\ st.dias > n

-----------------------------------------------------------------------------
(* The inactivity reports                                                  *)

\* get_all_reminders and push_to_n8n, clientes_inactivos_40: the customers
\* with more than 5 transactions or more than 5000 in sales, 90 days or more
\* without a purchase, the first 40 by days ascending
clientes_inactivos_40(rows, today) ==
    LET st == GroupStats(rows, "cliente_nombre", today)
        clientes_importantes ==
            { k \in DOMAIN st :
                st[k].transacciones > 5 \/ st[k].total_ventas > Pesos(5000) }
    IN SmallestBy({ k \in clientes_importantes : DaysAtLeast(st[k], 90) },
                  [k \in DOMAIN st |-> st[k].dias], 40)

\* get_all_reminders and push_to_n8n, productos_sin_movimiento_40
productos_sin_movimiento_40(rows, today) ==
    LET st == GroupStats(rows, "producto", today)
        productos_importantes ==
            { k \in DOMAIN st :
                st[k].transacciones > 10 \/ st[k].total_ventas > Pesos(5000) }
    IN SmallestBy({ k \in productos_importantes : DaysAtLeast(st[k], 60) },
                  [k \in DOMAIN st |-> st[k].dias], 40)

\* get_inactive_customers_data(df, today, days_threshold=90); the inactive
\* customers of render_reminders are computed by the same statements
get_inactive_customers_data(rows, today, days_threshold) ==
    LET st == GroupStats(rows, "cliente_nombre", today)
        total == [k \in DOMAIN st |-> st[k].total_ventas]
        relevant ==
            { k \in DOMAIN st :
                st[k].transacciones > 3 \/ st[k].total_ventas > Pesos(5000) }
        inactive == { k \in relevant : DaysOver(st[k], days_threshold) }
    IN [umbral_dias |-> days_threshold,
        clientes_inactivos_total |-> Cardinality(inactive),
        valor_en_riesgo |-> Round2(SumOver(inactive, total)),
        clientes_prioritarios |-> LargestBy(inactive, total, 20)]

\* get_stale_products_data(df, today, days_threshold=60); the stale products
\* of render_reminders are computed by the same statements
get_stale_products_data(rows, today, days_threshold) ==
    LET st == GroupStats(rows, "producto", today)
        total == [k \in DOMAIN st |-> st[k].total_ventas]
        top_products == LargestBy(DOMAIN st, total, 50)
        stale_products == { k \in top_products : DaysOver(st[k], days_threshold) }
    IN [umbral_dias |-> days_threshold,
        productos_afectados |-> Cardinality(stale_products),
        productos |-> stale_products]

-----------------------------------------------------------------------------
(* The three-month comparison and the monthly target                       *)

\* A month number that wraps only below zero
get_month_num_strict(current, offset) ==
    IF current - offset < 0 THEN current - offset + 12 ELSE current - offset

\* get_month_num(current, offset)
get_month_num(current, offset) ==
    IF current - offset <= 0 THEN current - offset + 12 ELSE current - offset

\* df[df['fecha'].dt.month == m]
MonthRows(rows, m) ==
    LET InMonth(r) == r.fecha # NaT /\ r.fecha[2] = m IN SelectSeq(rows, InMonth)

\* groupby(col)['venta_neta'].sum()
GroupSums(rows, col) ==
    [k \in GroupKeys(rows, col) |-> SumVenta(GroupRows(rows, col, k))]

\* merge(..., how='left') of the column other onto the entities left, then
\* fillna(0)
MergeLeftFillna0(left, other) ==
    [k \in left |-> IF k \in DOMAIN other THEN other[k] ELSE 0]

\* A change that subtracts the wrong way round
CambioReversed(actual, previous) == previous - actual

\* comp['cambio_vs_...'] = comp['mes_actual'] - comp[...]
Cambio(actual, previous) == actual - previous

\* The comparison of get_all_reminders, push_to_n8n and render_reminders for
\* the entities of column col: the 20 largest of the as-of month, the two
\* months before joined on from the left, the changes, and round(2)
comparacion_mensual(rows, col, today) ==
    LET m0 == GroupSums(MonthRows(rows, today[2]), col)
        m1 == GroupSums(MonthRows(rows, get_month_num(today[2], 1)), col)
        m2 == GroupSums(MonthRows(rows, get_month_num(today[2], 2)), col)
        top == LargestBy(DOMAIN m0, m0, 20)
        c1 == MergeLeftFillna0(top, m1)
        c2 == MergeLeftFillna0(top, m2)
    IN [k \in top |->
          [mes_actual |-> Round2(m0[k]),
           mes_anterior |-> Round2(c1[k]),
           hace_2_meses |-> Round2(c2[k]),
           cambio_vs_anterior |-> Round2(Cambio(m0[k], c1[k])),
           cambio_vs_hace_2 |-> Round2(Cambio(m0[k], c2[k]))]]

\* groupby(df_month['fecha'].dt.year) of the rows of the as-of month: the
\* years, and the sales of a year
YearsOf(rows) == { rows[i].fecha[1] : i \in 1..Len(rows) }

YearSales(rows, y) ==
    LET InYear(r) == r.fecha[1] = y IN SumVenta(SelectSeq(rows, InYear))

\* A history that counts the as-of year too
HistoricalYearsInclusive(years, current_year) ==
    { y \in years : y <= current_year }

\* yearly_sales[yearly_sales['año'] < current_year]
HistoricalYears(years, current_year) == { y \in years : y < current_year }

\* The month length of get_monthly_comparison_data: the day of the month of
\* the day before the first of the next month, and 31 in December
days_in_month(today) ==
    IF today[2] < 12
    THEN (toordinal(<<today[1], (today[2] % 12) + 1, 1>>) - 1)
            - toordinal(<<today[1], today[2], 1>>) + 1
    ELSE 31

\* get_monthly_comparison_data(df, today) and the sales target section of
\* render_reminders up to the projection: the figures before rounding
MonthlyFigures(rows, today) ==
    LET df_month == MonthRows(rows, today[2])
        years == YearsOf(df_month)
        ventas == [y \in years |-> YearSales(df_month, y)]
        historical == HistoricalYears(years, today[1])
    IN [years |-> years,
        ventas |-> ventas,
        historical |-> historical,
        hist_sum |-> SumOver(historical, ventas),
        hist_n |-> Cardinality(historical),
        current_sales |-> IF today[1] \in years THEN ventas[today[1]] ELSE 0,
        days_elapsed |-> today[3]]

\* get_monthly_comparison_data(df, today): the returned dict (amounts
\* rounded to two decimals; porcentaje_meta, rounded to one decimal, in
\* tenths of a percent)
get_monthly_comparison_data(rows, today) ==
    LET f == MonthlyFigures(rows, today)
    IN [numero_mes |-> today[2],
        anio_actual |-> today[1],
        ventas_actuales |-> Round2(f.current_sales),
        dias_transcurridos |-> f.days_elapsed,
        dias_en_mes |-> days_in_month(today),
        ventas_proyectadas |->
            IF f.days_elapsed > 0
            THEN Round2Frac(f.current_sales * days_in_month(today), f.days_elapsed)
            ELSE 0,
        promedio_historico |->
            IF f.hist_n > 0 THEN Round2Frac(f.hist_sum, f.hist_n) ELSE 0,
        meta_sugerida |->
            IF f.hist_n > 0 THEN Round2Frac(f.hist_sum * 11, f.hist_n * 10) ELSE 0,
        porcentaje_meta |->
            IF f.hist_n > 0 /\ f.hist_sum > 0
            THEN Scaled(f.current_sales * f.hist_n, f.hist_sum, 1000)
            ELSE 0,
        historico_anios |-> f.years]

\* render_reminders, sales target: days_in_month = 31, and the figures are
\* not rounded (a quotient is the pair of its numerator and denominator; pct
\* is the quotient current_sales / meta, which is shown times 100 with one
\* decimal)
render_reminders_target(rows, today) ==
    LET f == MonthlyFigures(rows, today)
    IN [current_sales |-> f.current_sales,
        days_in_month |-> 31,
        projected |-> IF f.days_elapsed > 0
                      THEN [num |-> f.current_sales * 31, den |-> f.days_elapsed]
                      ELSE [num |-> 0, den |-> 1],
        meta |-> IF f.hist_n > 0
                 THEN [num |-> f.hist_sum * 11, den |-> f.hist_n * 10]
                 ELSE [num |-> 0, den |-> 1],
        pct |-> IF f.hist_n > 0 /\ f.hist_sum > 0
                THEN [num |-> f.current_sales * f.hist_n * 10,
                      den |-> f.hist_sum * 11]
                ELSE [num |-> 0, den |-> 1]]

-----------------------------------------------------------------------------
(* calculate_rfm_scores                                                    *)

\* The customer names of the checks, in the order groupby sorts them
CustomerOrder == <<"A", "B", "C">>

Pos(name) == CHOOSE i \in 1..Len(CustomerOrder) : CustomerOrder[i] = name

\* Series.rank(method='first'): ties get their ranks in order of appearance
rank_first(S, val, c) ==
    1 + Cardinality({ d \in S : \/ val[d] < val[c]
                                \/ val[d] = val[c] /\ Pos(d) < Pos(c) })

\* pd.qcut(val, 5, labels=labels, duplicates='drop') over the entities S.
\* The six bin edges are the quantiles 0, 0.2, ..., 1 by linear
\* interpolation (kept times 5, so they stay integers); equal edges are
\* dropped, and five labels on fewer than five bins raise ValueError.  The
\* bins are closed on the right and the first one includes its lowest edge.
qcut(S, val, labels) ==
    LET n == Cardinality(S)
        xs == [i \in 1..n |-> val[CHOOSE c \in S : rank_first(S, val, c) = i]]
        edge5(k) ==
            LET p == k * (n - 1)
            IN IF p % 5 = 0 THEN 5 * xs[(p \div 5) + 1]
               ELSE 5 * xs[(p \div 5) + 1]
                        + (p % 5) * (xs[(p \div 5) + 2] - xs[(p \div 5) + 1])
        bins == { edge5(k) : k \in 0..5 }
        BinOf(v) ==
            LET below == Cardinality({ k \in 0..5 : edge5(k) < 5 * v })
            IN IF below = 0 THEN 1 ELSE below
    IN IF Cardinality(bins) # 6
       THEN [raised |-> TRUE]
       ELSE [raised |-> FALSE, score |-> [c \in S |-> labels[BinOf(val[c])]]]

\* A decision table that tests Perdidos before Dormidos
assign_segment_reordered(r, f, m) ==
    IF r >= 4 /\ f >= 4 /\ m >= 4 THEN "VIP"
    ELSE IF r >= 4 /\ f >= 4 THEN "Leal"
    ELSE IF r >= 4 /\ m >= 4 THEN "Potencial"
    ELSE IF r <= 2 /\ f >= 3 /\ m >= 3 THEN "En Riesgo"
    ELSE IF r <= 2 THEN "Perdidos"
    ELSE IF r <= 2 /\ m >= 3 THEN "Dormidos"
    ELSE IF r >= 4 /\ f <= 2 THEN "Nuevos"
    ELSE "Regular"

\* assign_segment(row)
assign_segment(r, f, m) ==
    IF r >= 4 /\ f >= 4 /\ m >= 4 THEN "VIP"
    ELSE IF r >= 4 /\ f >= 4 THEN "Leal"
    ELSE IF r >= 4 /\ m >= 4 THEN "Potencial"
    ELSE IF r <= 2 /\ f >= 3 /\ m >= 3 THEN "En Riesgo"
    ELSE IF r <= 2 /\ m >= 3 THEN "Dormidos"
    ELSE IF r <= 2 THEN "Perdidos"
    ELSE IF r >= 4 /\ f <= 2 THEN "Nuevos"
    ELSE "Regular"

\* The metrics of calculate_rfm_scores per customer: days since the last
\* purchase, distinct invoices, total revenue
rfm_metrics(rows) ==
    LET today == MaxDateFrom(rows, 1, NaT)
    IN [c \in GroupKeys(rows, "cliente_nombre") |->
          LET g == GroupRows(rows, "cliente_nombre", c)
          IN [recencia |-> DaysSince(today, MaxDateFrom(g, 1, NaT)),
              frecuencia |-> Cardinality({ g[i].factura_id : i \in 1..Len(g) }),
              valor_monetario |-> SumVenta(g)]]

\* calculate_rfm_scores(dataframe): recency is cut on its values, frequency
\* and revenue on their ranks
calculate_rfm_scores(rows) ==
    LET rfm == rfm_metrics(rows)
        S == DOMAIN rfm
        recencia == [c \in S |-> rfm[c].recencia]
        frecuencia == [c \in S |-> rfm[c].frecuencia]
        valor == [c \in S |-> rfm[c].valor_monetario]
        R == qcut(S, recencia, <<5, 4, 3, 2, 1>>)
        F == qcut(S, [c \in S |-> rank_first(S, frecuencia, c)], <<1, 2, 3, 4, 5>>)
        M == qcut(S, [c \in S |-> rank_first(S, valor, c)], <<1, 2, 3, 4, 5>>)
    IN IF R.raised \/ F.raised \/ M.raised
       THEN [raised |-> TRUE]
       ELSE [raised |-> FALSE,
             rfm |-> [c \in S |->
                        [R_score |-> R.score[c],
                         F_score |-> F.score[c],
                         M_score |-> M.score[c],
                         segmento |-> assign_segment(R.score[c], F.score[c],
                                                     M.score[c])]]]

-----------------------------------------------------------------------------
(* The report functions on tables of sales (SpecReports)                   *)

MaxGroups == 4

\* The dates of the checks: the last as-of date, and 89, 90 and 95 days,
\* one and two months, and one and two years before it
DateAsOf == <<2024, 3, 15>>

Date89 == <<2023, 12, 17>>

Date90 == <<2023, 12, 16>>

Date95 == <<2023, 12, 11>>

DateFeb == <<2024, 2, 10>>

DateJan == <<2024, 1, 20>>

DateYearBefore == <<2023, 3, 10>>

DateTwoYearsBefore == <<2022, 3, 5>>

\* Invoices: the lines of one invoice (n equal lines of cliente buying
\* producto on fecha for venta_neta each)
Invoice(cliente, producto, fecha, venta_neta, n, factura_id) ==
    [cliente_nombre |-> cliente, producto |-> producto, fecha |-> fecha,
     venta_neta |-> venta_neta, n |-> n, factura_id |-> factura_id]

Invoices ==
    << Invoice("A", "P", Date95, Pesos(800), 10, "F1"),
       Invoice("A", "P", Date90, Pesos(800), 10, "F2"),
       Invoice("A", "P", Date89, Pesos(800), 10, "F3"),
       Invoice("A", "P", DateAsOf, Pesos(100), 1, "F4"),
       Invoice("B", "Q", DateAsOf, Pesos(100), 1, "F5"),
       Invoice("B", "Q", DateFeb, Pesos(80), 1, "F6"),
       Invoice("B", "Q", DateAsOf, 6, 1, "F7"),
       Invoice("B", "Q", DateFeb, 2, 1, "F8"),
       Invoice("C", "R", Date95, Pesos(10), 1, "F9"),
       Invoice("B", "Q", Date95, Pesos(20), 1, "F10"),
       Invoice("B", "Q", DateYearBefore, Pesos(300), 1, "F11"),
       Invoice("B", "Q", DateTwoYearsBefore, Pesos(100), 1, "F12"),
       Invoice("A", "P", DateFeb, Pesos(50), 1, "F13"),
       Invoice("C", "R", DateJan, Pesos(70), 1, "F14") >>

\* The rows of an invoice in the loaded table
InvoiceRows(v) ==
    [i \in 1..v.n |->
        [cliente_nombre |-> v.cliente_nombre, producto |-> v.producto,
         fecha |-> v.fecha, venta_neta |-> v.venta_neta, cantidad |-> 1,
         factura_id |-> v.factura_id]]

RECURSIVE RowsFrom(_, _)
\* The rows of the invoices chosen by the index set I, in the order of Invoices
RowsFrom(I, i) ==
    IF i > Len(Invoices) THEN <<>>
    ELSE (IF i \in I THEN InvoiceRows(Invoices[i]) ELSE <<>>) \o RowsFrom(I, i + 1)

SalesColumns ==
    {"fecha", "cliente_nombre", "producto", "venta_neta", "cantidad", "factura_id"}

SalesTables ==
    { [columns |-> SalesColumns, rows |-> RowsFrom(I, 1)] :
        I \in { J \in SUBSET (1..Len(Invoices)) :
                  Cardinality(J) \in 1..MaxGroups } }

\* today = df['fecha'].max()
Today == MaxDateFrom(table.rows, 1, NaT)

InitReports ==
    /\ table \in SalesTables
    /\ report = [op |-> "none"]
    /\ SysIdle
    /\ NormIdle
    /\ CleanIdle
    /\ CallIdle
    /\ LoginIdle

Reported(r) ==
    /\ report.op = "none"
    /\ report' = r
    /\ UNCHANGED table
    /\ UNCHANGED <<sysVars, normVars, cleanVars, callVars, loginVars>>

\* The bundle that get_all_reminders returns and push_to_n8n posts
ReportAllReminders ==
    Reported([op |-> "get_all_reminders",
              clientes_inactivos_40 |-> clientes_inactivos_40(table.rows, Today),
              productos_sin_movimiento_40 |->
                  productos_sin_movimiento_40(table.rows, Today),
              comparacion_mensual_clientes |->
                  comparacion_mensual(table.rows, "cliente_nombre", Today),
              comparacion_mensual_productos |->
                  comparacion_mensual(table.rows, "producto", Today),
              meta_ventas_mes |-> get_monthly_comparison_data(table.rows, Today)])

\* get_inactive_customers: get_inactive_customers_data(df, today)
ReportInactiveCustomers ==
    Reported([op |-> "get_inactive_customers_data"]
             @@ get_inactive_customers_data(table.rows, Today, 90))

\* get_stale_products: get_stale_products_data(df, today)
ReportStaleProducts ==
    Reported([op |-> "get_stale_products_data"]
             @@ get_stale_products_data(table.rows, Today, 60))

\* get_monthly_target: get_monthly_comparison_data(df, today)
ReportMonthlyComparison ==
    Reported([op |-> "get_monthly_comparison_data"]
             @@ get_monthly_comparison_data(table.rows, Today))

\* The reminders view of the dashboard
ReportRenderReminders ==
    Reported([op |-> "render_reminders",
              target |-> render_reminders_target(table.rows, Today),
              inactive |->
                  get_inactive_customers_data(table.rows, Today, 90).clientes_prioritarios,
              stale_products |->
                  get_stale_products_data(table.rows, Today, 60).productos,
              comparacion_mensual_clientes |->
                  comparacion_mensual(table.rows, "cliente_nombre", Today),
              comparacion_mensual_productos |->
                  comparacion_mensual(table.rows, "producto", Today)])

\* calculate_rfm_scores(df)
ReportRfmScores ==
    Reported([op |-> "calculate_rfm_scores"] @@ calculate_rfm_scores(table.rows))

NextReports ==
    \/ ReportAllReminders
    \/ ReportInactiveCustomers
    \/ ReportStaleProducts
    \/ ReportMonthlyComparison
    \/ ReportRenderReminders
    \/ ReportRfmScores

SpecReports == InitReports /\ [][NextReports]_vars

-----------------------------------------------------------------------------
(* Properties of the reports (SpecReports)                                 *)

\* The statistics of the customers and of the products of the table, as of
\* its last date
CustomerStats == GroupStats(table.rows, "cliente_nombre", Today)

ProductStats == GroupStats(table.rows, "producto", Today)

\* Relevant: more than minCount transactions or more than 5000 in sales
Relevant(st, minCount) ==
    st.transacciones > minCount \/ st.total_ventas > Pesos(5000)

\* C12: in every inactivity report a relevant entity is listed as inactive
\* if and only if the days from its last activity to the as-of date strictly
\* exceed the threshold (90 for customers, 60 for products); a customer at
\* exactly 90 days is not listed.
C12_InactiveIffDaysExceedThreshold ==
    /\ report.op = "get_all_reminders" =>
          /\ \A k \in DOMAIN CustomerStats :
                Relevant(CustomerStats[k], 5) =>
                    (k \in report.clientes_inactivos_40 <=> CustomerStats[k].dias > 90)
          /\ \A k \in DOMAIN ProductStats :
                Relevant(ProductStats[k], 10) =>
                    (k \in report.productos_sin_movimiento_40 <=> ProductStats[k].dias > 60)
    /\ report.op = "get_inactive_customers_data" =>
          \A k \in DOMAIN CustomerStats :
              Relevant(CustomerStats[k], 3) =>
                  (k \in report.clientes_prioritarios <=> CustomerStats[k].dias > 90)
    /\ report.op = "render_reminders" =>
          \A k \in DOMAIN CustomerStats :
              Relevant(CustomerStats[k], 3) =>
                  (k \in report.inactive <=> CustomerStats[k].dias > 90)

\* C13: in every inactivity report, for customers and for products, an
\* entity appears only if its transaction count exceeds the count threshold
\* or its revenue exceeds the revenue threshold, and every entity that
\* satisfies either condition and the report's inactivity condition is
\* counted.  (For the stale products, whose report names no count threshold,
\* the weakest one is taken: more than one transaction.)
C13_OnlyRelevantEntitiesAppear ==
    /\ report.op = "get_all_reminders" =>
          /\ \A k \in report.clientes_inactivos_40 : Relevant(CustomerStats[k], 5)
          /\ \A k \in report.productos_sin_movimiento_40 : Relevant(ProductStats[k], 10)
          /\ \A k \in DOMAIN CustomerStats :
                (Relevant(CustomerStats[k], 5) /\ CustomerStats[k].dias >= 90) =>
                    k \in report.clientes_inactivos_40
    /\ report.op = "get_inactive_customers_data" =>
          /\ \A k \in report.clientes_prioritarios : Relevant(CustomerStats[k], 3)
          /\ report.clientes_inactivos_total =
                Cardinality({ k \in DOMAIN CustomerStats :
                                Relevant(CustomerStats[k], 3) /\ CustomerStats[k].dias > 90 })
    /\ report.op = "get_stale_products_data" =>
          \A k \in report.productos : Relevant(ProductStats[k], 1)
    /\ report.op = "render_reminders" =>
          /\ \A k \in report.inactive : Relevant(CustomerStats[k], 3)
          /\ \A k \in report.stale_products : Relevant(ProductStats[k], 1)

RECURSIVE SumIdx(_, _)
\* The sum of venta_neta over the rows with an index in I
SumIdx(rows, I) ==
    IF I = {} THEN 0
    ELSE LET i == CHOOSE x \in I : TRUE
         IN rows[i].venta_neta + SumIdx(rows, I \ {i})

\* The rows of entity k (of column col) dated in a month with number m
PeriodIdx(col, k, m) ==
    { i \in 1..Len(table.rows) :
        table.rows[i][col] = k /\ table.rows[i].fecha[2] = m }

PeriodRevenue(col, k, m) == SumIdx(table.rows, PeriodIdx(col, k, m))

\* The three month windows: the as-of month and the two months before it
Windows ==
    { Today[2], get_month_num(Today[2], 1), get_month_num(Today[2], 2) }

\* The entities with rows in any of the three windows
EntitiesInWindows(col) ==
    { table.rows[i][col] : i \in { j \in 1..Len(table.rows) :
                                      table.rows[j].fecha[2] \in Windows } }

\* C14: the three-period comparison has one row for every entity with
\* revenue in any of the three month windows, an entity with revenue only in
\* a prior month included.
C14_ComparisonIsOuterJoin ==
    report.op \in {"get_all_reminders", "render_reminders"} =>
        /\ DOMAIN report.comparacion_mensual_clientes = EntitiesInWindows("cliente_nombre")
        /\ DOMAIN report.comparacion_mensual_productos = EntitiesInWindows("producto")

\* The rows of a comparison satisfy P
ComparisonRows(P(_, _, _)) ==
    report.op \in {"get_all_reminders", "render_reminders"} =>
        /\ \A k \in DOMAIN report.comparacion_mensual_clientes :
              P("cliente_nombre", k, report.comparacion_mensual_clientes[k])
        /\ \A k \in DOMAIN report.comparacion_mensual_productos :
              P("producto", k, report.comparacion_mensual_productos[k])

\* C15 as stated: a period without rows is reported as 0, and the reported
\* changes equal the differences of the reported period amounts.
C15_ChangesEqualDifferencesOfReported ==
    LET Exact(col, k, row) ==
            /\ PeriodIdx(col, k, get_month_num(Today[2], 1)) = {} => row.mes_anterior = 0
            /\ PeriodIdx(col, k, get_month_num(Today[2], 2)) = {} => row.hace_2_meses = 0
            /\ row.cambio_vs_anterior = row.mes_actual - row.mes_anterior
            /\ row.cambio_vs_hace_2 = row.mes_actual - row.hace_2_meses
    IN ComparisonRows(Exact)

\* C15, amended: a period without rows is reported as 0; every period amount
\* is the period's revenue rounded to two decimals and every change is the
\* difference of the unrounded revenues, rounded to two decimals; when the
\* revenues are whole cents the changes equal the differences of the
\* reported amounts.
C15_ChangesAreRoundedDifferences ==
    LET Rounded(col, k, row) ==
            LET s0 == PeriodRevenue(col, k, Today[2])
                s1 == PeriodRevenue(col, k, get_month_num(Today[2], 1))
                s2 == PeriodRevenue(col, k, get_month_num(Today[2], 2))
            IN /\ PeriodIdx(col, k, get_month_num(Today[2], 1)) = {} => row.mes_anterior = 0
               /\ PeriodIdx(col, k, get_month_num(Today[2], 2)) = {} => row.hace_2_meses = 0
               /\ row.mes_actual = Round2(s0)
               /\ row.mes_anterior = Round2(s1)
               /\ row.hace_2_meses = Round2(s2)
               /\ row.cambio_vs_anterior = Round2(s0 - s1)
               /\ row.cambio_vs_hace_2 = Round2(s0 - s2)
               /\ (s0 % 10 = 0 /\ s1 % 10 = 0 /\ s2 % 10 = 0) =>
                     /\ row.cambio_vs_anterior = row.mes_actual - row.mes_anterior
                     /\ row.cambio_vs_hace_2 = row.mes_actual - row.hace_2_meses
    IN ComparisonRows(Rounded)

\* C15, its case: revenue 100 in the as-of month, 80 in the month before and
\* no rows two months before
C15_Witness ==
    /\ report.op = "get_all_reminders"
    /\ "B" \in DOMAIN report.comparacion_mensual_clientes
    /\ PeriodIdx("cliente_nombre", "B", get_month_num(Today[2], 2)) = {}
    /\ report.comparacion_mensual_clientes["B"] =
          [mes_actual |-> Pesos(100), mes_anterior |-> Pesos(80),
           hace_2_meses |-> 0, cambio_vs_anterior |-> Pesos(20),
           cambio_vs_hace_2 |-> Pesos(100)]

\* The rows of the as-of month number dated in one of the years Y
MonthYearIdx(Y) ==
    { i \in 1..Len(table.rows) :
        table.rows[i].fecha[2] = Today[2] /\ table.rows[i].fecha[1] \in Y }

\* The years strictly before the as-of year that have rows in the as-of month
YearsBefore ==
    { table.rows[i].fecha[1] : i \in { j \in 1..Len(table.rows) :
        table.rows[j].fecha[2] = Today[2] /\ table.rows[j].fecha[1] < Today[1] } }

\* Current-year sales of the as-of month
CurrentSales == SumIdx(table.rows, MonthYearIdx({Today[1]}))

\* C16: the projected month-end total is the current-year sales of the as-of
\* month divided by the as-of day of month and multiplied by the number of
\* days of the as-of calendar month, in the API report (rounded to two
\* decimals) and in the reminders view of the dashboard.
C16_ProjectionUsesCalendarMonthLength ==
    /\ report.op = "get_monthly_comparison_data" =>
          report.ventas_proyectadas =
              Round2Frac(CurrentSales * DaysInMonth(Today[1], Today[2]), Today[3])
    /\ report.op = "get_all_reminders" =>
          report.meta_ventas_mes.ventas_proyectadas =
              Round2Frac(CurrentSales * DaysInMonth(Today[1], Today[2]), Today[3])
    /\ report.op = "render_reminders" =>
          report.target.projected.num * Today[3] =
              CurrentSales * DaysInMonth(Today[1], Today[2]) * report.target.projected.den

\* The monthly comparison m states the historical average and the target of
\* the claim
TargetFromHistory(m) ==
    /\ m.historico_anios =
          { table.rows[i].fecha[1] : i \in { j \in 1..Len(table.rows) :
                                               table.rows[j].fecha[2] = Today[2] } }
    /\ m.ventas_actuales = Round2(CurrentSales)
    /\ IF YearsBefore = {}
       THEN m.promedio_historico = 0 /\ m.meta_sugerida = 0
       ELSE /\ m.promedio_historico =
                  Round2Frac(SumIdx(table.rows, MonthYearIdx(YearsBefore)),
                             Cardinality(YearsBefore))
            /\ m.meta_sugerida =
                  Round2Frac(11 * SumIdx(table.rows, MonthYearIdx(YearsBefore)),
                             10 * Cardinality(YearsBefore))

\* C17: the monthly year-over-year comparison uses only the rows of the
\* as-of month number; its historical average is the mean of the per-year
\* totals over the years strictly before the as-of year, and the suggested
\* target is 110% of that average (both rounded to two decimals).
C17_TargetIs110PercentOfHistoricalAverage ==
    /\ report.op = "get_monthly_comparison_data" => TargetFromHistory(report)
    /\ report.op = "get_all_reminders" => TargetFromHistory(report.meta_ventas_mes)

\* C17, its case: sales in the as-of month of two earlier years (300 and
\* 100) and of the as-of year, and rows of another month: average 200,
\* target 220
C17_Witness ==
    /\ report.op = "get_monthly_comparison_data"
    /\ YearsBefore = {2022, 2023}
    /\ CurrentSales > 0
    /\ \E i \in 1..Len(table.rows) : table.rows[i].fecha[2] # Today[2]
    /\ report.promedio_historico = Pesos(200)
    /\ report.meta_sugerida = Pesos(220)

\* The metrics of the customers of the table
Metrics == rfm_metrics(table.rows)

\* c has the single highest revenue, the single highest number of distinct
\* invoices and the most recent purchase of the population
TopCustomer(c) ==
    \A d \in DOMAIN Metrics \ {c} :
        /\ Metrics[d].valor_monetario < Metrics[c].valor_monetario
        /\ Metrics[d].frecuencia < Metrics[c].frecuencia
        /\ Metrics[d].recencia > Metrics[c].recencia

\* C18: a customer with the single highest revenue, the single highest
\* distinct-invoice count and the most recent purchase receives R_score 5,
\* F_score 5, M_score 5 and the segment VIP.
C18_TopCustomerIsVip ==
    report.op = "calculate_rfm_scores" =>
        \A c \in DOMAIN Metrics :
            TopCustomer(c) =>
                /\ ~report.raised
                /\ report.rfm[c] = [R_score |-> 5, F_score |-> 5, M_score |-> 5,
                                    segmento |-> "VIP"]

\* C19: for any population, customers sharing a recency, a frequency or a
\* revenue included, scoring completes without error and gives every
\* customer an R, F and M score in 1..5, the most recent customers R = 5.
C19_ScoringCompletesOnTies ==
    report.op = "calculate_rfm_scores" =>
        /\ ~report.raised
        /\ \A c \in DOMAIN Metrics :
              /\ report.rfm[c].R_score \in 1..5
              /\ report.rfm[c].F_score \in 1..5
              /\ report.rfm[c].M_score \in 1..5
              /\ (\A d \in DOMAIN Metrics : Metrics[c].recencia <= Metrics[d].recencia)
                    => report.rfm[c].R_score = 5

-----------------------------------------------------------------------------
(* Properties of push_to_n8n (Spec)                                        *)

\* C20: when the request to the webhook raises or the webhook answers with a
\* non-2xx status, push_to_n8n returns success = false, after a single
\* request, and does not raise.
C20_DeliveryFailureIsReported ==
    (last.op = "push_to_n8n" /\ webhook.delivery \in {"non2xx", "timeout", "network error"})
        => (last.result = "failure" /\ webhook.posts = 1)

-----------------------------------------------------------------------------
(* Calls of get_month_num and of assign_segment (SpecCalls)                *)

\* get_month_num(current_month, 1) and get_month_num(current_month, 2), with
\* current_month the month of a Timestamp; assign_segment(row) on a row whose
\* three scores are labels of pd.qcut
Calls ==
    { [fn |-> "get_month_num", current |-> c, offset |-> o] :
          c \in 1..12, o \in 1..2 }
    \cup
    { [fn |-> "assign_segment", R_score |-> r, F_score |-> f, M_score |-> m] :
          r \in 1..5, f \in 1..5, m \in 1..5 }

InitCalls ==
    /\ call \in Calls
    /\ ret = [done |-> FALSE]
    /\ SysIdle
    /\ NormIdle
    /\ CleanIdle
    /\ ReportIdle
    /\ LoginIdle

Returned(value) ==
    /\ ~ret.done
    /\ ret' = [done |-> TRUE, value |-> value]
    /\ UNCHANGED call
    /\ UNCHANGED <<sysVars, normVars, cleanVars, reportVars, loginVars>>

CallGetMonthNum ==
    /\ call.fn = "get_month_num"
    /\ Returned(get_month_num(call.current, call.offset))

CallAssignSegment ==
    /\ call.fn = "assign_segment"
    /\ Returned(assign_segment(call.R_score, call.F_score, call.M_score))

NextCalls ==
    \/ CallGetMonthNum
    \/ CallAssignSegment

SpecCalls == InitCalls /\ [][NextCalls]_vars

-----------------------------------------------------------------------------
(* Properties of get_month_num and of assign_segment (SpecCalls)           *)

\* C25: get_month_num(current, offset) returns, for every current month in
\* 1..12 and offset in {1, 2}, the month number
\* ((current - offset - 1) mod 12) + 1, which is in 1..12; for January the
\* two preceding months are 12 and 11, for February 1 and 12.
C25_MonthNumberWraps ==
    (ret.done /\ call.fn = "get_month_num") =>
        /\ ret.value = ((call.current - call.offset - 1) % 12) + 1
        /\ ret.value \in 1..12
        /\ call.current = 1 =>
              ret.value = (IF call.offset = 1 THEN 12 ELSE 11)
        /\ call.current = 2 =>
              ret.value = (IF call.offset = 1 THEN 1 ELSE 12)

\* C25, its case: two months before January is November
C25_Witness ==
    /\ ret.done
    /\ call = [fn |-> "get_month_num", current |-> 1, offset |-> 2]
    /\ ret.value = 11

\* The rules of the segments in their order of priority: the scores that
\* each rule accepts
SegmentRules ==
    << [name |-> "VIP", r |-> 4..5, f |-> 4..5, m |-> 4..5],
       [name |-> "Leal", r |-> 4..5, f |-> 4..5, m |-> 1..5],
       [name |-> "Potencial", r |-> 4..5, f |-> 1..5, m |-> 4..5],
       [name |-> "En Riesgo", r |-> 1..2, f |-> 3..5, m |-> 3..5],
       [name |-> "Dormidos", r |-> 1..2, f |-> 1..5, m |-> 3..5],
       [name |-> "Perdidos", r |-> 1..2, f |-> 1..5, m |-> 1..5],
       [name |-> "Nuevos", r |-> 4..5, f |-> 1..2, m |-> 1..5] >>

SegmentNames ==
    { SegmentRules[i].name : i \in 1..Len(SegmentRules) } \cup {"Regular"}

Matches(i, r, f, m) ==
    r \in SegmentRules[i].r /\ f \in SegmentRules[i].f /\ m \in SegmentRules[i].m

\* The segment of the first rule that matches, Regular when none does
FirstMatch(r, f, m) ==
    IF \E i \in 1..Len(SegmentRules) : Matches(i, r, f, m)
    THEN SegmentRules[CHOOSE i \in 1..Len(SegmentRules) :
                         /\ Matches(i, r, f, m)
                         /\ \A j \in 1..(i - 1) : ~Matches(j, r, f, m)].name
    ELSE "Regular"

\* C26: assign_segment maps every score triple of 1..5 x 1..5 x 1..5 to
\* exactly one of the 8 segments, that of the first matching rule in the
\* order VIP, Leal, Potencial, En Riesgo, Dormidos, Perdidos, Nuevos, with
\* Regular as the fallback; each of the 8 segments is produced by at least
\* one triple.
C26_SegmentIsFirstMatchingRule ==
    /\ (ret.done /\ call.fn = "assign_segment") =>
          /\ ret.value \in SegmentNames
          /\ ret.value = FirstMatch(call.R_score, call.F_score, call.M_score)
    /\ Cardinality(SegmentNames) = 8
    /\ \A name \in SegmentNames :
          \E r \in 1..5, f \in 1..5, m \in 1..5 : assign_segment(r, f, m) = name

\* C26, its case: a triple that the rules of both Dormidos and Perdidos
\* accept gets the earlier one
C26_Witness ==
    /\ ret.done
    /\ call = [fn |-> "assign_segment", R_score |-> 1, F_score |-> 2, M_score |-> 4]
    /\ ret.value = "Dormidos"

-----------------------------------------------------------------------------
(* The PIN protection of the dashboard (SpecLogin)                         *)

DASHBOARD_PIN == "101010"

MAX_ATTEMPTS == 5

LOCKOUT_MINUTES == 5

\* The last minute of the clock
MaxTime == 12

\* What can be typed into the text input: the PIN and another text
Pins == {DASHBOARD_PIN, "000000"}

\* st.session_state["lockout_until"] is set and datetime.now() is before it
LockedOut(s, t) == s.lockout_until # <<>> /\ t < s.lockout_until[1]

\* A callback that locks only after more than MAX_ATTEMPTS failures
password_entered_late_lock(s, pin, t) ==
    IF pin = DASHBOARD_PIN
    THEN [s EXCEPT !.password_correct = "True", !.failed_attempts = 0]
    ELSE [s EXCEPT !.password_correct = "False",
                   !.failed_attempts = @ + 1,
                   !.lockout_until =
                       IF s.failed_attempts + 1 > MAX_ATTEMPTS
                       THEN <<t + LOCKOUT_MINUTES>> ELSE @]

\* password_entered(), the on_change callback of the text input, at time t
password_entered(s, pin, t) ==
    IF pin = DASHBOARD_PIN
    THEN [s EXCEPT !.password_correct = "True", !.failed_attempts = 0]
    ELSE [s EXCEPT !.password_correct = "False",
                   !.failed_attempts = @ + 1,
                   !.lockout_until =
                       IF s.failed_attempts + 1 >= MAX_ATTEMPTS
                       THEN <<t + LOCKOUT_MINUTES>> ELSE @]

\* check_password() at time t: the session state it leaves, what it renders
\* (the blocked page, the form with the text input, or nothing) and what it
\* returns
check_password(s, t) ==
    IF LockedOut(s, t)
    THEN [session |-> s, shown |-> "locked", returns |-> FALSE]
    ELSE LET s1 == IF s.lockout_until # <<>>
                   THEN [s EXCEPT !.failed_attempts = 0, !.lockout_until = <<>>]
                   ELSE s
         IN IF s1.password_correct = "absent"
            THEN [session |-> s1, shown |-> "form", returns |-> FALSE]
            ELSE IF s1.password_correct = "False"
            THEN [session |-> s1, shown |-> "form", returns |-> FALSE]
            ELSE [session |-> s1, shown |-> "content", returns |-> TRUE]

\* A run of the script: if not check_password(): st.stop(), and the content
\* of the dashboard after it
RunScript(s) ==
    /\ session' = check_password(s, now).session
    /\ shown' = IF check_password(s, now).returns THEN "content"
                ELSE check_password(s, now).shown
    /\ UNCHANGED now
    /\ UNCHANGED <<sysVars, normVars, cleanVars, reportVars, callVars>>

\* A run that no widget of the login form started (the first run of the
\* session, a rerun)
Rerun == RunScript(session)

\* A text is entered into the text input that the last run rendered: the
\* callback runs, then the script
EnterPin ==
    /\ shown = "form"
    /\ \E pin \in Pins : RunScript(password_entered(session, pin, now))

\* A minute passes
Tick ==
    /\ now < MaxTime
    /\ now' = now + 1
    /\ UNCHANGED <<session, shown>>
    /\ UNCHANGED <<sysVars, normVars, cleanVars, reportVars, callVars>>

InitLogin ==
    /\ session = NoSession
    /\ now = 0
    /\ shown = "nothing"
    /\ SysIdle
    /\ NormIdle
    /\ CleanIdle
    /\ ReportIdle
    /\ CallIdle

NextLogin ==
    \/ Rerun
    \/ EnterPin
    \/ Tick

SpecLogin == InitLogin /\ [][NextLogin]_vars

-----------------------------------------------------------------------------
(* Properties of the PIN protection (SpecLogin)                            *)

\* In a session state: failed_attempts is at most MAX_ATTEMPTS, at
\* MAX_ATTEMPTS the lockout is set, during the lockout check_password returns
\* False, password_correct is not True and the blocked page is what was
\* rendered, and the content is rendered only with password_correct True
LockoutState ==
    /\ session.failed_attempts \in 0..MAX_ATTEMPTS
    /\ session.failed_attempts = MAX_ATTEMPTS => session.lockout_until # <<>>
    /\ LockedOut(session, now) =>
          /\ ~check_password(session, now).returns
          /\ session.password_correct # "True"
          /\ shown = "locked"
    /\ shown = "content" => session.password_correct = "True"

\* C30: in every reachable session state failed_attempts is at most
\* MAX_ATTEMPTS; once it reaches MAX_ATTEMPTS the session is locked, and
\* until the lockout time has passed check_password returns False and no
\* step, the entry of the correct PIN included, makes password_correct True;
\* the content of the dashboard is rendered only in states where
\* password_correct is True.
C30_LockoutHolds ==
    /\ []LockoutState
    /\ [][LockedOut(session, now) => session'.password_correct # "True"]_vars

\* C30, its case: the fifth wrong PIN has locked the session, and time has
\* passed since
C30_Witness ==
    /\ session.failed_attempts = MAX_ATTEMPTS
    /\ LockedOut(session, now)
    /\ now > session.lockout_until[1] - LOCKOUT_MINUTES
    /\ shown = "locked"

-----------------------------------------------------------------------------
(* Loads during an upload through the API (SpecUpload)                     *)

\* POST /api/upload-data, open(save_path, "wb"): the file is truncated; or
\* open raises and the handler answers success = false
UploadOpen ==
    /\ ~writer.open
    /\ \E f \in UploadFiles, opened \in BOOLEAN :
          IF opened
          THEN /\ writer' = [open |-> TRUE, src |-> f, k |-> 0, old |-> file]
               /\ file' = Written(f, 0)
               /\ stale' = [p \in Procs |-> TRUE]
               /\ uploaded' = TRUE
               /\ UNCHANGED last
          ELSE /\ last' = [proc |-> "api", op |-> "upload_data", result |-> "failure"]
               /\ UNCHANGED <<writer, file, stale, uploaded>>
    /\ UNCHANGED <<cache, df, prevDf, info, clearedSince, webhook, offlineVars>>

\* shutil.copyfileobj(file.file, buffer): the next write
UploadCopy ==
    /\ writer.open
    /\ writer.k < Chunks(writer.src)
    /\ writer' = [writer EXCEPT !.k = @ + 1]
    /\ file' = Written(writer.src, writer.k + 1)
    /\ UNCHANGED <<cache, df, prevDf, info, stale, clearedSince, uploaded, last,
                   webhook, offlineVars>>

\* The with block ends and the handler answers success = true
UploadClose ==
    /\ writer.open
    /\ writer.k = Chunks(writer.src)
    /\ writer' = NoWriter
    /\ last' = [proc |-> "api", op |-> "upload_data", result |-> "success"]
    /\ UNCHANGED <<file, cache, df, prevDf, info, stale, clearedSince, uploaded,
                   webhook, offlineVars>>

\* The uploads of the API step by step, with the handlers of the API (in
\* the thread pool) and the runs of the dashboard (another process) that
\* load in between
NextUpload ==
    \/ UploadOpen
    \/ UploadCopy
    \/ UploadClose
    \/ GetAllReminders
    \/ ScriptRun

SpecUpload == Init /\ [][NextUpload]_vars

-----------------------------------------------------------------------------
(* Properties of loads during an upload (SpecUpload)                       *)

\* Process p calls load_data in this step while the upload writer has the
\* file open, and the call reads the file
ReadsDuringUpload(p) ==
    /\ writer.open
    /\ writer' = writer
    /\ last'.proc = p
    /\ ~IsHit(p)

\* C29: a load that overlaps an API upload to the same path never returns,
\* and never caches, a table built from a truncated or partially written
\* file: it returns and caches the table of either the complete old content
\* or the complete new content.
C29_LoadsSeeCompleteContent ==
    [][\A p \in Procs :
          ReadsDuringUpload(p) =>
              /\ df'[p] \in {load_data(writer.old), load_data(writer.src)}
              /\ cache'[p] \in {load_data(writer.old), load_data(writer.src)}]_vars

-----------------------------------------------------------------------------
(* The reminders bundle in full: ordered lists, the summary, the raises    *)

\* The group keys of the checks, in the order groupby sorts them
KeyOrder == <<"A", "B", "C", "P", "Q", "R">>

KeyPos(k) == CHOOSE i \in 1..Len(KeyOrder) : KeyOrder[i] = k

RECURSIVE sort_values(_, _, _)
\* DataFrame.sort_values(col, ascending) of the groups S with column val:
\* equal values keep the order of the frame, which is the order of the keys
\* (the sort is stable on frames this small)
sort_values(S, val, ascending) ==
    IF S = {} THEN <<>>
    ELSE LET first ==
                CHOOSE a \in S : \A b \in S \ {a} :
                    IF val[a] = val[b] THEN KeyPos(a) < KeyPos(b)
                    ELSE IF ascending THEN val[a] < val[b] ELSE val[a] > val[b]
         IN <<first>> \o sort_values(S \ {first}, val, ascending)

\* DataFrame.head(n)
head(s, n) == SubSeq(s, 1, IF Len(s) < n THEN Len(s) ELSE n)

\* DataFrame.nlargest(n, col), keep='first'
nlargest(S, val, n) == head(sort_values(S, val, FALSE), n)

\* dias <= n on the statistics of one entity (False on NaN)
DaysAtMost(st, n) == st.ultima # NaT /\ st.dias <= n

\* df['fecha'].min(): the earliest date that is not NaT
MinDate(rows) ==
    LET dates == { rows[i].fecha : i \in 1..Len(rows) } \ {NaT}
    IN IF dates = {} THEN NaT
       ELSE CHOOSE d \in dates : \A e \in dates : toordinal(d) <= toordinal(e)

\* Timestamp.strftime('%Y-%m-%d'): the text as its three numbers
strftime(ts) == [Y |-> ts[1], m |-> ts[2], d |-> ts[3]]

\* relevant[relevant['dias_sin_compra'] > days_threshold].sort_values(
\* 'total_ventas', ascending=False) of get_inactive_customers_data and of
\* render_reminders
inactive_sorted(rows, today, days_threshold) ==
    LET st == GroupStats(rows, "cliente_nombre", today)
        relevant ==
            { k \in DOMAIN st :
                st[k].transacciones > 3 \/ st[k].total_ventas > Pesos(5000) }
    IN sort_values({ k \in relevant : DaysOver(st[k], days_threshold) },
                   [k \in DOMAIN st |-> st[k].total_ventas], FALSE)

\* top_products[top_products['dias_sin_venta'] > days_threshold].sort_values(
\* 'total_ventas', ascending=False) of get_stale_products_data and of
\* render_reminders
stale_sorted(rows, today, days_threshold) ==
    LET st == GroupStats(rows, "producto", today)
        total == [k \in DOMAIN st |-> st[k].total_ventas]
        top_products == nlargest(DOMAIN st, total, 50)
    IN sort_values({ k \in DOMAIN st :
                        /\ \E i \in 1..Len(top_products) : top_products[i] = k
                        /\ DaysOver(st[k], days_threshold) },
                   total, FALSE)

\* generate_executive_summary(df, today): the parts of the text, each the
\* template it was built from with the figures it carries
generate_executive_summary(rows, today) ==
    LET meta == get_monthly_comparison_data(rows, today)
        inactivos == get_inactive_customers_data(rows, today, 90)
        sin_venta == get_stale_products_data(rows, today, 60)
    IN (IF meta.porcentaje_meta < 800
        THEN << [template |-> "ALERTA", porcentaje_meta |-> meta.porcentaje_meta,
                 ventas_actuales |-> meta.ventas_actuales,
                 meta_sugerida |-> meta.meta_sugerida] >>
        ELSE IF meta.porcentaje_meta >= 1000
        THEN << [template |-> "EXCELENTE", porcentaje_meta |-> meta.porcentaje_meta,
                 ventas_actuales |-> meta.ventas_actuales] >>
        ELSE << [template |-> "progreso", porcentaje_meta |-> meta.porcentaje_meta,
                 faltan |-> meta.meta_sugerida - meta.ventas_actuales] >>)
       \o (IF inactivos.clientes_inactivos_total > 0
           THEN << [template |-> "clientes_inactivos",
                    clientes_inactivos_total |-> inactivos.clientes_inactivos_total,
                    valor_en_riesgo |-> inactivos.valor_en_riesgo] >>
           ELSE <<>>)
       \o (IF sin_venta.productos_afectados > 0
           THEN << [template |-> "productos_sin_venta",
                    productos_afectados |-> sin_venta.productos_afectados] >>
           ELSE <<>>)

\* get_all_reminders(): the result, or the ValueError of int(NaN) and of
\* NaT.strftime
get_all_reminders(rows, today) ==
    LET cust_stats == GroupStats(rows, "cliente_nombre", today)
        total_c == [k \in DOMAIN cust_stats |-> cust_stats[k].total_ventas]
        dias_c == [k \in DOMAIN cust_stats |-> cust_stats[k].dias]
        clientes_importantes ==
            { k \in DOMAIN cust_stats :
                cust_stats[k].transacciones > 5 \/ cust_stats[k].total_ventas > Pesos(5000) }
        clientes_inactivos ==
            head(sort_values({ k \in clientes_importantes : DaysAtLeast(cust_stats[k], 90) },
                             dias_c, TRUE), 40)
        prod_stats == GroupStats(rows, "producto", today)
        total_p == [k \in DOMAIN prod_stats |-> prod_stats[k].total_ventas]
        dias_p == [k \in DOMAIN prod_stats |-> prod_stats[k].dias]
        productos_importantes ==
            { k \in DOMAIN prod_stats :
                prod_stats[k].transacciones > 10 \/ prod_stats[k].total_ventas > Pesos(5000) }
        productos_sin_venta ==
            head(sort_values({ k \in productos_importantes : DaysAtLeast(prod_stats[k], 60) },
                             dias_p, TRUE), 40)
        clientes_recientes ==
            head(sort_values({ k \in clientes_importantes : DaysAtMost(cust_stats[k], 7) },
                             total_c, FALSE), 15)
        productos_recientes ==
            head(sort_values({ k \in productos_importantes : DaysAtMost(prod_stats[k], 7) },
                             total_p, FALSE), 15)
        top_clientes_siempre == nlargest(clientes_importantes, total_c, 20)
        top_productos_siempre == nlargest(productos_importantes, total_p, 20)
        mes_actual == today[2]
        mes_anterior == get_month_num(today[2], 1)
        mes_anterior_2 == get_month_num(today[2], 2)
        meses == [actual |-> mes_actual, anterior |-> mes_anterior,
                  hace_2 |-> mes_anterior_2]
        int_raises ==
            \/ \E i \in 1..Len(top_clientes_siempre) :
                  cust_stats[top_clientes_siempre[i]].ultima = NaT
            \/ \E i \in 1..Len(top_productos_siempre) :
                  prod_stats[top_productos_siempre[i]].ultima = NaT
    IN IF today = NaT \/ int_raises
       THEN [raised |-> TRUE]
       ELSE
        [raised |-> FALSE,
         periodo_datos |-> [desde |-> strftime(MinDate(rows)),
                            hasta |-> strftime(MaxDateFrom(rows, 1, NaT))],
         meta_ventas_mes |-> get_monthly_comparison_data(rows, today),
         clientes_inactivos_40 |->
            [total |-> Len(clientes_inactivos),
             lista |->
                [i \in 1..Len(clientes_inactivos) |->
                    LET row == cust_stats[clientes_inactivos[i]]
                    IN [cliente |-> clientes_inactivos[i],
                        dias_sin_compra |-> row.dias,
                        total_ventas |-> Round2(row.total_ventas),
                        transacciones |-> row.transacciones,
                        ultima_compra |-> strftime(row.ultima)]]],
         productos_sin_movimiento_40 |->
            [total |-> Len(productos_sin_venta),
             lista |->
                [i \in 1..Len(productos_sin_venta) |->
                    LET row == prod_stats[productos_sin_venta[i]]
                    IN [producto |-> productos_sin_venta[i],
                        dias_sin_venta |-> row.dias,
                        total_ventas |-> Round2(row.total_ventas),
                        transacciones |-> row.transacciones,
                        ultima_venta |-> strftime(row.ultima)]]],
         clientes_recientes |->
            [lista |->
                [i \in 1..Len(clientes_recientes) |->
                    LET row == cust_stats[clientes_recientes[i]]
                    IN [cliente |-> clientes_recientes[i],
                        dias_sin_compra |-> row.dias,
                        total_ventas |-> Round2(row.total_ventas)]]],
         productos_recientes |->
            [lista |->
                [i \in 1..Len(productos_recientes) |->
                    LET row == prod_stats[productos_recientes[i]]
                    IN [producto |-> productos_recientes[i],
                        dias_sin_venta |-> row.dias,
                        total_ventas |-> Round2(row.total_ventas)]]],
         top_clientes_historico |->
            [lista |->
                [i \in 1..Len(top_clientes_siempre) |->
                    LET row == cust_stats[top_clientes_siempre[i]]
                    IN [cliente |-> top_clientes_siempre[i],
                        total_ventas |-> Round2(row.total_ventas),
                        transacciones |-> row.transacciones,
                        dias_sin_compra |-> row.dias]]],
         top_productos_historico |->
            [lista |->
                [i \in 1..Len(top_productos_siempre) |->
                    LET row == prod_stats[top_productos_siempre[i]]
                    IN [producto |-> top_productos_siempre[i],
                        total_ventas |-> Round2(row.total_ventas),
                        transacciones |-> row.transacciones,
                        dias_sin_venta |-> row.dias]]],
         comparacion_mensual_clientes |->
            [meses |-> meses,
             lista |-> comparacion_mensual(rows, "cliente_nombre", today)],
         comparacion_mensual_productos |->
            [meses |-> meses,
             lista |-> comparacion_mensual(rows, "producto", today)],
         resumen_ejecutivo |-> generate_executive_summary(rows, today)]

\* A payload whose customer watch list starts after 90 days
push_to_n8n_inactive_over(rows, today) ==
    LET cust_stats == GroupStats(rows, "cliente_nombre", today)
        total_c == [k \in DOMAIN cust_stats |-> cust_stats[k].total_ventas]
        dias_c == [k \in DOMAIN cust_stats |-> cust_stats[k].dias]
        clientes_importantes ==
            { k \in DOMAIN cust_stats :
                cust_stats[k].transacciones > 5 \/ cust_stats[k].total_ventas > Pesos(5000) }
        clientes_inactivos ==
            head(sort_values({ k \in clientes_importantes : DaysOver(cust_stats[k], 90) },
                             dias_c, TRUE), 40)
        prod_stats == GroupStats(rows, "producto", today)
        total_p == [k \in DOMAIN prod_stats |-> prod_stats[k].total_ventas]
        dias_p == [k \in DOMAIN prod_stats |-> prod_stats[k].dias]
        productos_importantes ==
            { k \in DOMAIN prod_stats :
                prod_stats[k].transacciones > 10 \/ prod_stats[k].total_ventas > Pesos(5000) }
        productos_sin_venta ==
            head(sort_values({ k \in productos_importantes : DaysAtLeast(prod_stats[k], 60) },
                             dias_p, TRUE), 40)
        clientes_recientes ==
            head(sort_values({ k \in clientes_importantes : DaysAtMost(cust_stats[k], 7) },
                             total_c, FALSE), 15)
        productos_recientes ==
            head(sort_values({ k \in productos_importantes : DaysAtMost(prod_stats[k], 7) },
                             total_p, FALSE), 15)
        top_clientes_siempre == nlargest(clientes_importantes, total_c, 20)
        top_productos_siempre == nlargest(productos_importantes, total_p, 20)
        mes_actual == today[2]
        mes_anterior == get_month_num(today[2], 1)
        mes_anterior_2 == get_month_num(today[2], 2)
        meses == [actual |-> mes_actual, anterior |-> mes_anterior,
                  hace_2 |-> mes_anterior_2]
        int_raises ==
            \/ \E i \in 1..Len(top_clientes_siempre) :
                  cust_stats[top_clientes_siempre[i]].ultima = NaT
            \/ \E i \in 1..Len(top_productos_siempre) :
                  prod_stats[top_productos_siempre[i]].ultima = NaT
    IN IF today = NaT \/ int_raises
       THEN [raised |-> TRUE]
       ELSE
        [raised |-> FALSE,
         periodo_datos |-> [desde |-> strftime(MinDate(rows)),
                            hasta |-> strftime(MaxDateFrom(rows, 1, NaT))],
         meta_ventas_mes |-> get_monthly_comparison_data(rows, today),
         clientes_inactivos_40 |->
            [total |-> Len(clientes_inactivos),
             lista |->
                [i \in 1..Len(clientes_inactivos) |->
                    LET row == cust_stats[clientes_inactivos[i]]
                    IN [cliente |-> clientes_inactivos[i],
                        dias_sin_compra |-> row.dias,
                        total_ventas |-> Round2(row.total_ventas),
                        transacciones |-> row.transacciones,
                        ultima_compra |-> strftime(row.ultima)]]],
         productos_sin_movimiento_40 |->
            [total |-> Len(productos_sin_venta),
             lista |->
                [i \in 1..Len(productos_sin_venta) |->
                    LET row == prod_stats[productos_sin_venta[i]]
                    IN [producto |-> productos_sin_venta[i],
                        dias_sin_venta |-> row.dias,
                        total_ventas |-> Round2(row.total_ventas),
                        transacciones |-> row.transacciones,
                        ultima_venta |-> strftime(row.ultima)]]],
         clientes_recientes |->
            [lista |->
                [i \in 1..Len(clientes_recientes) |->
                    LET row == cust_stats[clientes_recientes[i]]
                    IN [cliente |-> clientes_recientes[i],
                        dias_sin_compra |-> row.dias,
                        total_ventas |-> Round2(row.total_ventas)]]],
         productos_recientes |->
            [lista |->
                [i \in 1..Len(productos_recientes) |->
                    LET row == prod_stats[productos_recientes[i]]
                    IN [producto |-> productos_recientes[i],
                        dias_sin_venta |-> row.dias,
                        total_ventas |-> Round2(row.total_ventas)]]],
         top_clientes_historico |->
            [lista |->
                [i \in 1..Len(top_clientes_siempre) |->
                    LET row == cust_stats[top_clientes_siempre[i]]
                    IN [cliente |-> top_clientes_siempre[i],
                        total_ventas |-> Round2(row.total_ventas),
                        transacciones |-> row.transacciones,
                        dias_sin_compra |-> row.dias]]],
         top_productos_historico |->
            [lista |->
                [i \in 1..Len(top_productos_siempre) |->
                    LET row == prod_stats[top_productos_siempre[i]]
                    IN [producto |-> top_productos_siempre[i],
                        total_ventas |-> Round2(row.total_ventas),
                        transacciones |-> row.transacciones,
                        dias_sin_venta |-> row.dias]]],
         comparacion_mensual_clientes |->
            [meses |-> meses,
             lista |-> comparacion_mensual(rows, "cliente_nombre", today)],
         comparacion_mensual_productos |->
            [meses |-> meses,
             lista |-> comparacion_mensual(rows, "producto", today)],
         resumen_ejecutivo |-> generate_executive_summary(rows, today)]

\* push_to_n8n(): the result dict posted to the webhook, or the raise
push_to_n8n_result(rows, today) ==
    LET cust_stats == GroupStats(rows, "cliente_nombre", today)
        total_c == [k \in DOMAIN cust_stats |-> cust_stats[k].total_ventas]
        dias_c == [k \in DOMAIN cust_stats |-> cust_stats[k].dias]
        clientes_importantes ==
            { k \in DOMAIN cust_stats :
                cust_stats[k].transacciones > 5 \/ cust_stats[k].total_ventas > Pesos(5000) }
        clientes_inactivos ==
            head(sort_values({ k \in clientes_importantes : DaysAtLeast(cust_stats[k], 90) },
                             dias_c, TRUE), 40)
        prod_stats == GroupStats(rows, "producto", today)
        total_p == [k \in DOMAIN prod_stats |-> prod_stats[k].total_ventas]
        dias_p == [k \in DOMAIN prod_stats |-> prod_stats[k].dias]
        productos_importantes ==
            { k \in DOMAIN prod_stats :
                prod_stats[k].transacciones > 10 \/ prod_stats[k].total_ventas > Pesos(5000) }
        productos_sin_venta ==
            head(sort_values({ k \in productos_importantes : DaysAtLeast(prod_stats[k], 60) },
                             dias_p, TRUE), 40)
        clientes_recientes ==
            head(sort_values({ k \in clientes_importantes : DaysAtMost(cust_stats[k], 7) },
                             total_c, FALSE), 15)
        productos_recientes ==
            head(sort_values({ k \in productos_importantes : DaysAtMost(prod_stats[k], 7) },
                             total_p, FALSE), 15)
        top_clientes_siempre == nlargest(clientes_importantes, total_c, 20)
        top_productos_siempre == nlargest(productos_importantes, total_p, 20)
        mes_actual == today[2]
        mes_anterior == get_month_num(today[2], 1)
        mes_anterior_2 == get_month_num(today[2], 2)
        meses == [actual |-> mes_actual, anterior |-> mes_anterior,
                  hace_2 |-> mes_anterior_2]
        int_raises ==
            \/ \E i \in 1..Len(top_clientes_siempre) :
                  cust_stats[top_clientes_siempre[i]].ultima = NaT
            \/ \E i \in 1..Len(top_productos_siempre) :
                  prod_stats[top_productos_siempre[i]].ultima = NaT
    IN IF today = NaT \/ int_raises
       THEN [raised |-> TRUE]
       ELSE
        [raised |-> FALSE,
         periodo_datos |-> [desde |-> strftime(MinDate(rows)),
                            hasta |-> strftime(MaxDateFrom(rows, 1, NaT))],
         meta_ventas_mes |-> get_monthly_comparison_data(rows, today),
         clientes_inactivos_40 |->
            [total |-> Len(clientes_inactivos),
             lista |->
                [i \in 1..Len(clientes_inactivos) |->
                    LET row == cust_stats[clientes_inactivos[i]]
                    IN [cliente |-> clientes_inactivos[i],
                        dias_sin_compra |-> row.dias,
                        total_ventas |-> Round2(row.total_ventas),
                        transacciones |-> row.transacciones,
                        ultima_compra |-> strftime(row.ultima)]]],
         productos_sin_movimiento_40 |->
            [total |-> Len(productos_sin_venta),
             lista |->
                [i \in 1..Len(productos_sin_venta) |->
                    LET row == prod_stats[productos_sin_venta[i]]
                    IN [producto |-> productos_sin_venta[i],
                        dias_sin_venta |-> row.dias,
                        total_ventas |-> Round2(row.total_ventas),
                        transacciones |-> row.transacciones,
                        ultima_venta |-> strftime(row.ultima)]]],
         clientes_recientes |->
            [lista |->
                [i \in 1..Len(clientes_recientes) |->
                    LET row == cust_stats[clientes_recientes[i]]
                    IN [cliente |-> clientes_recientes[i],
                        dias_sin_compra |-> row.dias,
                        total_ventas |-> Round2(row.total_ventas)]]],
         productos_recientes |->
            [lista |->
                [i \in 1..Len(productos_recientes) |->
                    LET row == prod_stats[productos_recientes[i]]
                    IN [producto |-> productos_recientes[i],
                        dias_sin_venta |-> row.dias,
                        total_ventas |-> Round2(row.total_ventas)]]],
         top_clientes_historico |->
            [lista |->
                [i \in 1..Len(top_clientes_siempre) |->
                    LET row == cust_stats[top_clientes_siempre[i]]
                    IN [cliente |-> top_clientes_siempre[i],
                        total_ventas |-> Round2(row.total_ventas),
                        transacciones |-> row.transacciones,
                        dias_sin_compra |-> row.dias]]],
         top_productos_historico |->
            [lista |->
                [i \in 1..Len(top_productos_siempre) |->
                    LET row == prod_stats[top_productos_siempre[i]]
                    IN [producto |-> top_productos_siempre[i],
                        total_ventas |-> Round2(row.total_ventas),
                        transacciones |-> row.transacciones,
                        dias_sin_venta |-> row.dias]]],
         comparacion_mensual_clientes |->
            [meses |-> meses,
             lista |-> comparacion_mensual(rows, "cliente_nombre", today)],
         comparacion_mensual_productos |->
            [meses |-> meses,
             lista |-> comparacion_mensual(rows, "producto", today)],
         resumen_ejecutivo |-> generate_executive_summary(rows, today)]

-----------------------------------------------------------------------------
(* The reminders on tables with null dates and ordered lists (SpecBundles) *)

\* 100 days before the last as-of date
Date100 == <<2023, 12, 6>>

\* The invoices of these checks: customers A, B and C at 95, 90 and 100
\* days, sales of the as-of month and of the same month one and two years
\* before, and rows whose date did not parse (NaT)
BundleInvoices ==
    << Invoice("A", "P", Date95, Pesos(800), 10, "G1"),
       Invoice("B", "Q", Date90, Pesos(6000), 1, "G2"),
       Invoice("C", "R", Date100, Pesos(9000), 1, "G3"),
       Invoice("A", "P", DateAsOf, Pesos(170), 1, "G4"),
       Invoice("B", "Q", DateAsOf, Pesos(10), 1, "G5"),
       Invoice("C", "R", DateAsOf, Pesos(30), 1, "G6"),
       Invoice("B", "Q", DateYearBefore, Pesos(300), 1, "G7"),
       Invoice("C", "R", DateTwoYearsBefore, Pesos(100), 1, "G8"),
       Invoice("C", "R", NaT, Pesos(6000), 1, "G9"),
       Invoice("B", "Q", NaT, Pesos(10), 1, "G10"),
       Invoice("A", "P", DateFeb, Pesos(50), 1, "G11") >>

RECURSIVE BundleRowsFrom(_, _)
\* The rows of the invoices chosen by the index set I
BundleRowsFrom(I, i) ==
    IF i > Len(BundleInvoices) THEN <<>>
    ELSE (IF i \in I THEN InvoiceRows(BundleInvoices[i]) ELSE <<>>)
            \o BundleRowsFrom(I, i + 1)

\* The loaded tables: some date of the table parsed
BundleTables ==
    { t \in { [columns |-> SalesColumns, rows |-> BundleRowsFrom(I, 1)] :
                I \in { J \in SUBSET (1..Len(BundleInvoices)) :
                          Cardinality(J) \in 1..MaxGroups } } :
        AsOfDate(t) # NaT }

InitBundles ==
    /\ table \in BundleTables
    /\ report = [op |-> "none"]
    /\ SysIdle
    /\ NormIdle
    /\ CleanIdle
    /\ CallIdle
    /\ LoginIdle

\* GET /api/reminders
BundleGetAllReminders ==
    Reported([op |-> "get_all_reminders",
              result |-> get_all_reminders(table.rows, Today)])

\* POST /api/push-to-n8n: the result dict that is posted as JSON
BundlePushToN8n ==
    Reported([op |-> "push_to_n8n",
              result |-> push_to_n8n_result(table.rows, Today)])

\* GET /api/reminders/clientes-inactivos: the counts and the list of inactive
\* customers, the first 20 by sales
BundleInactiveCustomers ==
    LET st == GroupStats(table.rows, "cliente_nombre", Today)
        data == get_inactive_customers_data(table.rows, Today, 90)
        first == head(inactive_sorted(table.rows, Today, 90), 20)
    IN Reported([op |-> "get_inactive_customers",
                 clientes_inactivos_total |-> data.clientes_inactivos_total,
                 valor_en_riesgo |-> data.valor_en_riesgo,
                 lista |-> [i \in 1..Len(first) |->
                              [name |-> first[i],
                               total_ventas |-> Round2(st[first[i]].total_ventas),
                               dias |-> st[first[i]].dias]]])

\* GET /api/reminders/productos-sin-movimiento
BundleStaleProducts ==
    LET st == GroupStats(table.rows, "producto", Today)
        data == get_stale_products_data(table.rows, Today, 60)
        all == stale_sorted(table.rows, Today, 60)
    IN Reported([op |-> "get_stale_products",
                 productos_afectados |-> data.productos_afectados,
                 lista |-> [i \in 1..Len(all) |->
                              [name |-> all[i],
                               total_ventas |-> Round2(st[all[i]].total_ventas),
                               dias |-> st[all[i]].dias]]])

\* GET /api/reminders/meta-ventas
BundleMonthlyTarget ==
    Reported([op |-> "get_monthly_target"]
             @@ get_monthly_comparison_data(table.rows, Today))

\* The reminders view of the dashboard: the target figures and the two
\* tables of inactive customers and stale products, 15 rows each
BundleRenderReminders ==
    LET cst == GroupStats(table.rows, "cliente_nombre", Today)
        pst == GroupStats(table.rows, "producto", Today)
        inactive_display == head(inactive_sorted(table.rows, Today, 90), 15)
        stale_display == head(stale_sorted(table.rows, Today, 60), 15)
    IN Reported([op |-> "render_reminders",
                 target |-> render_reminders_target(table.rows, Today),
                 inactive |-> [i \in 1..Len(inactive_display) |->
                                 [name |-> inactive_display[i],
                                  total_ventas |-> cst[inactive_display[i]].total_ventas,
                                  dias |-> cst[inactive_display[i]].dias]],
                 stale_products |-> [i \in 1..Len(stale_display) |->
                                 [name |-> stale_display[i],
                                  total_ventas |-> pst[stale_display[i]].total_ventas,
                                  dias |-> pst[stale_display[i]].dias]]])

NextBundles ==
    \/ BundleGetAllReminders
    \/ BundlePushToN8n
    \/ BundleInactiveCustomers
    \/ BundleStaleProducts
    \/ BundleMonthlyTarget
    \/ BundleRenderReminders

SpecBundles == InitBundles /\ [][NextBundles]_vars

-----------------------------------------------------------------------------
(* Properties of the reminders (SpecBundles)                               *)

\* C21: for the same loaded table the bundle returned by GET /api/reminders
\* equals the bundle that POST /api/push-to-n8n sends to the webhook, field
\* for field (the generation timestamp apart); a table on which one raises
\* makes the other raise too.
C21_BundleEqualsPayload ==
    /\ report.op = "get_all_reminders" =>
          report.result = push_to_n8n_result(table.rows, Today)
    /\ report.op = "push_to_n8n" =>
          report.result = get_all_reminders(table.rows, Today)

\* A payload was posted that lists an inactive customer and has a summary of
\* more than one sentence
C21_Witness ==
    /\ report.op = "push_to_n8n"
    /\ ~report.result.raised
    /\ report.result.clientes_inactivos_40.total > 0
    /\ Len(report.result.resumen_ejecutivo) > 1
    /\ Len(report.result.top_productos_historico.lista) > 0

\* The entities of column col all of whose rows have a null date
NullDated(col) ==
    { k \in GroupKeys(table.rows, col) :
        \A i \in 1..Len(table.rows) :
            table.rows[i][col] = k => table.rows[i].fecha = NaT }

\* The names listed in a list of entries
Listed(lista, field) == { lista[i][field] : i \in 1..Len(lista) }

\* C23: a row whose date could not be parsed stays in the table with a null
\* date and no report raises because of it: get_all_reminders, push_to_n8n
\* and the inactivity functions return a result, and an entity all of whose
\* rows have null dates is in none of their date-based lists.
C23_NullDatesNeverRaise ==
    /\ report.op \in {"get_all_reminders", "push_to_n8n"} =>
          /\ ~report.result.raised
          /\ Listed(report.result.clientes_inactivos_40.lista, "cliente")
                \cap NullDated("cliente_nombre") = {}
          /\ Listed(report.result.productos_sin_movimiento_40.lista, "producto")
                \cap NullDated("producto") = {}
          /\ Listed(report.result.clientes_recientes.lista, "cliente")
                \cap NullDated("cliente_nombre") = {}
          /\ Listed(report.result.productos_recientes.lista, "producto")
                \cap NullDated("producto") = {}
    /\ report.op = "get_inactive_customers" =>
          Listed(report.lista, "name") \cap NullDated("cliente_nombre") = {}
    /\ report.op = "get_stale_products" =>
          Listed(report.lista, "name") \cap NullDated("producto") = {}

\* The inactivity functions return and leave the entities without a date
\* out, and the bundle raises only on a table with such an entity
NullDatesOnlyBreakTheBundle ==
    /\ report.op = "get_inactive_customers" =>
          Listed(report.lista, "name") \cap NullDated("cliente_nombre") = {}
    /\ report.op = "get_stale_products" =>
          Listed(report.lista, "name") \cap NullDated("producto") = {}
    /\ (report.op \in {"get_all_reminders", "push_to_n8n"} /\ report.result.raised) =>
          NullDated("cliente_nombre") \cup NullDated("producto") # {}

\* The inactive entities of a report: relevant (more than minCount
\* transactions or more than 5000 in sales) and more than the given number
\* of days after their last activity
InactiveSet(stats, minCount, days) ==
    { k \in DOMAIN stats :
        /\ Relevant(stats[k], minCount)
        /\ stats[k].ultima # NaT
        /\ stats[k].dias > days }

\* The list is in the order of val (ascending or descending) and has no
\* entity twice
InOrder(lista, field, val, ascending) ==
    \A i, j \in 1..Len(lista) :
        i < j =>
            /\ lista[i][field] # lista[j][field]
            /\ IF ascending THEN val[lista[i][field]] <= val[lista[j][field]]
               ELSE val[lista[i][field]] >= val[lista[j][field]]

\* The list is the first n (or all) of the set S in the order of val
PrefixOf(lista, field, S, val, ascending, n) ==
    /\ InOrder(lista, field, val, ascending)
    /\ Listed(lista, field) \subseteq S
    /\ Len(lista) = (IF Cardinality(S) < n THEN Cardinality(S) ELSE n)
    /\ \A k \in S \ Listed(lista, field), i \in 1..Len(lista) :
          IF ascending THEN val[lista[i][field]] <= val[k]
          ELSE val[lista[i][field]] >= val[k]

CustomerDays == [k \in DOMAIN CustomerStats |-> CustomerStats[k].dias]

CustomerSales == [k \in DOMAIN CustomerStats |-> CustomerStats[k].total_ventas]

ProductDays == [k \in DOMAIN ProductStats |-> ProductStats[k].dias]

ProductSales == [k \in DOMAIN ProductStats |-> ProductStats[k].total_ventas]

\* C24: the 40-entry watch lists of the reminders bundle are ordered by days
\* inactive ascending and the risk lists of get_inactive_customers_data and
\* get_stale_products_data by total revenue descending, and each list is a
\* prefix, in that order, of the full set of inactive entities (relevant, and
\* more than 90 days for customers, 60 for products, after the last activity).
C24_ListsArePrefixesOfInactiveSet ==
    /\ (report.op \in {"get_all_reminders", "push_to_n8n"} /\ ~report.result.raised) =>
          /\ PrefixOf(report.result.clientes_inactivos_40.lista, "cliente",
                      InactiveSet(CustomerStats, 5, 90), CustomerDays, TRUE, 40)
          /\ PrefixOf(report.result.productos_sin_movimiento_40.lista, "producto",
                      InactiveSet(ProductStats, 10, 60), ProductDays, TRUE, 40)
    /\ report.op = "get_inactive_customers" =>
          PrefixOf(report.lista, "name",
                   InactiveSet(CustomerStats, 3, 90), CustomerSales, FALSE, 20)
    /\ report.op = "get_stale_products" =>
          PrefixOf(report.lista, "name",
                   InactiveSet(ProductStats, 1, 60), ProductSales, FALSE, 50)

\* The entities that are at least the given number of days after their last
\* activity
AtLeastDays(stats, days) ==
    { k \in DOMAIN stats : stats[k].ultima # NaT /\ stats[k].dias >= days }

\* The order and the prefix alone: each list is a prefix, in the order of its
\* sort key, of the entities that its own function selects (the watch lists
\* from 90 and 60 days on, the stale products without a test of relevance)
ListsArePrefixesOfSelection ==
    /\ (report.op \in {"get_all_reminders", "push_to_n8n"} /\ ~report.result.raised) =>
          /\ PrefixOf(report.result.clientes_inactivos_40.lista, "cliente",
                      { k \in AtLeastDays(CustomerStats, 90) :
                          Relevant(CustomerStats[k], 5) },
                      CustomerDays, TRUE, 40)
          /\ PrefixOf(report.result.productos_sin_movimiento_40.lista, "producto",
                      { k \in AtLeastDays(ProductStats, 60) :
                          Relevant(ProductStats[k], 10) },
                      ProductDays, TRUE, 40)
    /\ report.op = "get_inactive_customers" =>
          PrefixOf(report.lista, "name",
                   InactiveSet(CustomerStats, 3, 90), CustomerSales, FALSE, 20)
    /\ report.op = "get_stale_products" =>
          PrefixOf(report.lista, "name",
                   AtLeastDays(ProductStats, 61), ProductSales, FALSE, 50)

\* Lists of two entities whose two orders differ were reported
ListsOfTwoReported ==
    \/ /\ report.op = "get_all_reminders"
       /\ ~report.result.raised
       /\ Len(report.result.clientes_inactivos_40.lista) >= 2
       /\ CustomerDays[report.result.clientes_inactivos_40.lista[1].cliente]
            < CustomerDays[report.result.clientes_inactivos_40.lista[2].cliente]
       /\ CustomerSales[report.result.clientes_inactivos_40.lista[1].cliente]
            < CustomerSales[report.result.clientes_inactivos_40.lista[2].cliente]
    \/ /\ report.op = "get_inactive_customers"
       /\ Len(report.lista) >= 2
       /\ CustomerDays[report.lista[1].name] > CustomerDays[report.lista[2].name]

\* The target messages of a summary
TargetMessages(summary) ==
    LET IsTarget(p) == p.template \in {"ALERTA", "EXCELENTE", "progreso"}
    IN SelectSeq(summary, IsTarget)

HasPart(summary, name) == \E i \in 1..Len(summary) : summary[i].template = name

\* The figures of the as-of month of the table
Figures == MonthlyFigures(table.rows, Today)

\* Target attainment, current sales over the suggested target (110% of the
\* historical average), is below pct percent; without history there is no
\* target and no attainment
AttainmentBelow(pct) ==
    (Figures.current_sales \div GCD(Figures.current_sales, Figures.hist_sum))
            * Figures.hist_n * 1000
        < pct * (Figures.hist_sum \div GCD(Figures.current_sales, Figures.hist_sum)) * 11

HasTarget == Figures.hist_n > 0 /\ Figures.hist_sum > 0

\* The band of the target attainment
Band ==
    IF AttainmentBelow(80) THEN "ALERTA"
    ELSE IF ~AttainmentBelow(100) THEN "EXCELENTE"
    ELSE "progreso"

\* C27: generate_executive_summary emits exactly one target-status message
\* for every table: the alert template when target attainment is below 80%,
\* the excellent template when it is 100% or more and the progress template
\* in between; the inactive-customers sentence is present exactly when some
\* customer is inactive and the stale-products sentence exactly when some
\* product is stale.
C27_SummaryFollowsBands ==
    (report.op = "get_all_reminders" /\ ~report.result.raised) =>
        LET summary == report.result.resumen_ejecutivo
        IN /\ Len(TargetMessages(summary)) = 1
           /\ HasTarget => TargetMessages(summary)[1].template = Band
           /\ HasPart(summary, "clientes_inactivos")
                <=> InactiveSet(CustomerStats, 3, 90) # {}
           /\ HasPart(summary, "productos_sin_venta")
                <=> AtLeastDays(ProductStats, 61) # {}

\* The bands on the percentage that the summary prints (current sales over
\* the historical average, rounded to one decimal)
SummaryFollowsPrintedPercentage ==
    (report.op = "get_all_reminders" /\ ~report.result.raised) =>
        LET summary == report.result.resumen_ejecutivo
            shown_pct == TargetMessages(summary)[1].porcentaje_meta
        IN /\ Len(TargetMessages(summary)) = 1
           /\ TargetMessages(summary)[1].template =
                (IF shown_pct < 800 THEN "ALERTA"
                 ELSE IF shown_pct >= 1000 THEN "EXCELENTE" ELSE "progreso")
           /\ HasTarget =>
                shown_pct = Scaled(Figures.current_sales * Figures.hist_n,
                                   Figures.hist_sum, 1000)
           /\ HasPart(summary, "clientes_inactivos")
                <=> InactiveSet(CustomerStats, 3, 90) # {}
           /\ HasPart(summary, "productos_sin_venta")
                <=> AtLeastDays(ProductStats, 61) # {}

\* A quotient as a percentage with one decimal (f"{pct:.1f}"), in tenths of
\* a percent
OneDecimal(q) == Scaled(q.num, q.den, 1000)

\* C28: for the same table the reminders view of the dashboard and the
\* monthly comparison of the API report the same percent of target and the
\* same projected sales: both divide the current sales by the suggested
\* target (110% of the historical average) and use the same number of days
\* of the month.
C28_DashboardAndApiAgree ==
    LET api == get_monthly_comparison_data(table.rows, Today)
        view == render_reminders_target(table.rows, Today)
        of_target ==
            IF HasTarget
            THEN Scaled(Figures.current_sales * Figures.hist_n * 10,
                        Figures.hist_sum * 11, 1000)
            ELSE 0
    IN /\ report.op = "render_reminders" =>
            /\ OneDecimal(report.target.pct) = api.porcentaje_meta
            /\ OneDecimal(report.target.pct) = of_target
            /\ report.target.days_in_month = api.dias_en_mes
            /\ Round2Frac(report.target.projected.num, report.target.projected.den)
                  = api.ventas_proyectadas
       /\ report.op = "get_monthly_target" =>
            /\ report.porcentaje_meta = OneDecimal(view.pct)
            /\ report.porcentaje_meta = of_target
            /\ report.dias_en_mes = view.days_in_month
            /\ report.ventas_proyectadas
                  = Round2Frac(view.projected.num, view.projected.den)

\* The dashboard divides by the target, and the API by the average
DashboardDividesByTarget ==
    /\ report.op = "render_reminders" =>
          OneDecimal(report.target.pct) =
              (IF HasTarget
               THEN Scaled(Figures.current_sales * Figures.hist_n * 10,
                           Figures.hist_sum * 11, 1000)
               ELSE 0)
    /\ report.op = "get_monthly_target" =>
          report.porcentaje_meta =
              (IF HasTarget
               THEN Scaled(Figures.current_sales * Figures.hist_n,
                           Figures.hist_sum, 1000)
               ELSE 0)

-----------------------------------------------------------------------------
(* The runs of the dashboard script on the loaded table (SpecViews)        *)

\* The tables of these checks: one or two invoices, tables without any
\* parsed date included
ViewTables ==
    { [columns |-> SalesColumns, rows |-> BundleRowsFrom(I, 1)] :
        I \in { J \in SUBSET (1..Len(BundleInvoices)) : Cardinality(J) \in 1..2 } }

\* end_date - pd.DateOffset(months=k): the same day k months before, or the
\* last day of that month
MonthsBefore(ts, k) ==
    LET y == IF ts[2] - k <= 0 THEN ts[1] - 1 ELSE ts[1]
        m == IF ts[2] - k <= 0 THEN ts[2] - k + 12 ELSE ts[2] - k
    IN <<y, m, IF ts[3] < DaysInMonth(y, m) THEN ts[3] ELSE DaysInMonth(y, m)>>

date_presets ==
    {"Todos", "Este Año", "Últimos 6 Meses", "Últimos 3 Meses", "Último Mes",
     "Última Semana", "Personalizado"}

\* The day number of start_date for a preset
StartDay(date_preset, min_date, max_date) ==
    IF date_preset = "Este Año" THEN toordinal(<<max_date[1], 1, 1>>)
    ELSE IF date_preset = "Últimos 6 Meses" THEN toordinal(MonthsBefore(max_date, 6))
    ELSE IF date_preset = "Últimos 3 Meses" THEN toordinal(MonthsBefore(max_date, 3))
    ELSE IF date_preset = "Último Mes" THEN toordinal(MonthsBefore(max_date, 1))
    ELSE IF date_preset = "Última Semana" THEN toordinal(max_date) - 7
    ELSE toordinal(min_date)

\* df.loc[mask]: a new frame with the rows dated from start to end (day
\* numbers); a row without a date is not among them
Masked(t, start, end) ==
    LET InRange(r) ==
            /\ r.fecha # NaT
            /\ toordinal(r.fecha) >= start
            /\ toordinal(r.fecha) <= end
    IN [columns |-> t.columns, rows |-> SelectSeq(t.rows, InRange)]

\* The dates of the calendar widget: the dates of the table
PickableDates(t) == { t.rows[i].fecha : i \in 1..Len(t.rows) } \ {NaT}

month_names ==
    << "January", "February", "March", "April", "May", "June", "July",
       "August", "September", "October", "November", "December" >>

\* render_overview: filtered_df['mes_anio'], ['nombre_mes'] and ['num_mes']
\* are assigned (a value of a row without a date is missing: <<>>)
WithMonthColumns(t) ==
    [columns |-> t.columns \cup {"mes_anio", "nombre_mes", "num_mes"},
     rows |-> [i \in 1..Len(t.rows) |->
                 LET fecha == t.rows[i].fecha
                 IN t.rows[i] @@
                    [mes_anio |-> IF fecha = NaT THEN <<>> ELSE <<fecha[1], fecha[2]>>,
                     nombre_mes |-> IF fecha = NaT THEN <<>>
                                    ELSE <<month_names[fecha[2]]>>,
                     num_mes |-> IF fecha = NaT THEN <<>> ELSE <<fecha[2]>>]]]

InitViews ==
    /\ \E t \in ViewTables :
          /\ cache = [p \in Procs |-> t]
          /\ df = [p \in Procs |-> t]
    /\ file = FileMissing
    /\ prevDf = [p \in Procs |-> NoDf]
    /\ info = [p \in Procs |-> [hit |-> FALSE, same |-> FALSE, cleared |-> FALSE]]
    /\ stale = [p \in Procs |-> FALSE]
    /\ clearedSince = [p \in Procs |-> FALSE]
    /\ uploaded = FALSE
    /\ last = [proc |-> "none", op |-> "none", result |-> "none"]
    /\ webhook = NoWebhook
    /\ writer = NoWriter
    /\ NormIdle
    /\ CleanIdle
    /\ ReportIdle
    /\ CallIdle
    /\ LoginIdle

\* What a step of the dashboard script leaves alone
ViewFrame ==
    UNCHANGED <<file, cache, prevDf, info, stale, clearedSince, uploaded, last,
                webhook, writer, table, normVars, cleanVars, callVars, loginVars>>

\* The global date filter of the script: filtered_df is df itself when the
\* table has no date or the date input holds one date, and df.loc[mask]
\* otherwise
DateFilter ==
    /\ report.op = "none"
    /\ LET t == df["app"]
           min_date == MinDate(t.rows)
           max_date == AsOfDate(t)
       IN IF min_date = NaT \/ max_date = NaT
          THEN report' = [op |-> "date_filter", date_preset |-> "none",
                          alias |-> TRUE, filtered_df |-> t]
          ELSE \E date_preset \in date_presets :
                  IF date_preset = "Personalizado"
                  THEN \E date_range \in
                            { <<d>> : d \in PickableDates(t) } \cup
                            { <<d, e>> : d \in PickableDates(t), e \in PickableDates(t) } :
                          IF Len(date_range) = 2
                          THEN report' =
                                 [op |-> "date_filter", date_preset |-> date_preset,
                                  alias |-> FALSE,
                                  filtered_df |->
                                     Masked(t, toordinal(date_range[1]),
                                            toordinal(date_range[2]))]
                          ELSE report' =
                                 [op |-> "date_filter", date_preset |-> date_preset,
                                  alias |-> TRUE, filtered_df |-> t]
                  ELSE report' =
                         [op |-> "date_filter", date_preset |-> date_preset,
                          alias |-> FALSE,
                          filtered_df |->
                             Masked(t, StartDay(date_preset, min_date, max_date),
                                    toordinal(max_date))]
    /\ UNCHANGED df
    /\ ViewFrame

\* render_overview(): the three column assignments on filtered_df, which
\* reach df when filtered_df is df
RenderOverview ==
    /\ report.op = "date_filter"
    /\ report' = [report EXCEPT !.op = "render_overview",
                                !.filtered_df = WithMonthColumns(@)]
    /\ df' = IF report.alias
             THEN [df EXCEPT !["app"] = WithMonthColumns(@)]
             ELSE df
    /\ ViewFrame

\* render_reminders(): reads df, df_month is a copy
RenderReminders ==
    /\ report.op = "date_filter"
    /\ report' = [op |-> "render_reminders", alias |-> report.alias,
                  target |-> render_reminders_target(df["app"].rows, AsOfDate(df["app"]))]
    /\ UNCHANGED df
    /\ ViewFrame

\* The next run of the script: load_data(DATA_PATH) hands out a copy of the
\* cached table
ScriptRerun ==
    /\ report.op \in {"render_overview", "render_reminders"}
    /\ report' = [op |-> "none"]
    /\ df' = [df EXCEPT !["app"] = cache["app"]]
    /\ ViewFrame

\* GET /api/reminders/meta-ventas on a table with a date: get_df() and
\* get_monthly_comparison_data(df, today), whose df_month is a copy
ApiMonthlyTarget ==
    /\ last.op = "none"
    /\ AsOfDate(cache["api"]) # NaT
    /\ df' = [df EXCEPT !["api"] = cache["api"]]
    /\ last' = [proc |-> "api", op |-> "get_monthly_target", result |-> "returned"]
    /\ UNCHANGED <<file, cache, prevDf, info, stale, clearedSince, uploaded,
                   webhook, writer, offlineVars>>

NextViews ==
    \/ DateFilter
    \/ RenderOverview
    \/ RenderReminders
    \/ ScriptRerun
    \/ ApiMonthlyTarget

SpecViews == InitViews /\ [][NextViews]_vars

-----------------------------------------------------------------------------
(* Properties of the views (SpecViews)                                     *)

\* C22: no aggregation or view function changes the loaded table: after any
\* sequence of report calls and view renders, with any selection of the
\* date filter, the table of a process has the same columns and the same
\* row values as right after the load.
C22_LoadedTableIsNeverChanged ==
    \A p \in Procs : df[p] = cache[p]

\* The overview on a filtered copy leaves the table as loaded
OverviewOnCopyKeepsTable ==
    (report.op \in {"date_filter", "render_reminders"}
        \/ (report.op = "render_overview" /\ ~report.alias))
      => \A p \in Procs : df[p] = cache[p]

====
